---- MODULE Spec2Model ----
(***************************************************************************)
(* Model of the PyGWalker data explorer (src/pygwalker/app.py, src/app.py). *)
(*                                                                         *)
(*   Spec     the visualization server: create_app and the HTTP handlers   *)
(*            running on worker threads around the lock-guarded state slot *)
(*   SelSpec  the interactive selector prompt_for_file_selection           *)
(*                                                                         *)
(* Strings are sequences of one-character strings, so that suffix          *)
(* extraction, stripping, lower-casing and integer parsing are computed.   *)
(***************************************************************************)
EXTENDS Integers, Sequences, FiniteSets, TLC

\* ------------------------------------------------------------------ bounds

\* worker threads of the threaded Flask server that are modelled
NumWorkers == 2
\* largest max_attempts the selector is started with
MaxAttemptsBound == 3
\* longest file list the selector is started with
MaxFiles == 3

Workers == 1..NumWorkers

\* Python's None
None == [tag |-> "None"]

\* ----------------------------------------------------------------- strings

Range(f) == { f[i] : i \in DOMAIN f }

\* the upper-case letters of the model and their lower-case forms
UpperChars == <<"A", "B", "C", "E", "J", "N", "O", "S", "V">>
LowerChars == <<"a", "b", "c", "e", "j", "n", "o", "s", "v">>

\* str.lower(), one character
LowerChar(c) ==
    IF \E i \in DOMAIN UpperChars : UpperChars[i] = c
    THEN LowerChars[CHOOSE i \in DOMAIN UpperChars : UpperChars[i] = c]
    ELSE c

\* str.lower()
Lower(s) == [i \in DOMAIN s |-> LowerChar(s[i])]

\* str.rfind('.') as a 1-based index, 0 when there is no dot
RFindDot(s) ==
    IF \E i \in DOMAIN s : s[i] = "."
    THEN CHOOSE i \in DOMAIN s : s[i] = "." /\ \A j \in DOMAIN s : s[j] = "." => j <= i
    ELSE 0

\* pathlib's PurePath.suffix of a final path component: the text from the
\* last dot on, unless that dot is the first or the last character
NameSuffix(name) ==
    LET i == RFindDot(name)
    IN  IF 1 < i /\ i < Len(name) THEN SubSeq(name, i, Len(name)) ELSE <<>>

\* PurePath.name of a path string: the text after the last "/", trailing
\* slashes dropped
RECURSIVE BaseName(_)
BaseName(s) ==
    IF s # <<>> /\ s[Len(s)] = "/" THEN BaseName(SubSeq(s, 1, Len(s) - 1))
    ELSE IF \E i \in DOMAIN s : s[i] = "/"
    THEN BaseName(Tail(s))
    ELSE s

\* Path(filename).suffix
Suffix(filename) == NameSuffix(BaseName(filename))

\* the characters of the model in code-point order
Alphabet ==
    <<" ", "#", "+", "-", ".", "/", "0", "1", "2", "3", "4", "5", "6", "7", "8", "9", "A", "B", "C", "E", "J", "N", "O", "S",
      "V", "\\", "_", "a", "b", "c", "d", "e", "g", "j", "k", "l", "n", "o", "p", "q",
      "r", "s", "t", "u", "v", "x">>
Ord(c) == CHOOSE i \in DOMAIN Alphabet : Alphabet[i] = c

\* s < t for str
RECURSIVE StrLess(_, _)
StrLess(s, t) ==
    IF t = <<>> THEN FALSE
    ELSE IF s = <<>> THEN TRUE
    ELSE IF Head(s) = Head(t) THEN StrLess(Tail(s), Tail(t))
    ELSE Ord(Head(s)) < Ord(Head(t))

\* the supported extensions (load_data's dispatch, line for line)
ExtCsv == <<".", "c", "s", "v">>
ExtXlsx == <<".", "x", "l", "s", "x">>
ExtXls == <<".", "x", "l", "s">>
ExtParquet == <<".", "p", "a", "r", "q", "u", "e", "t">>
ExtJson == <<".", "j", "s", "o", "n">>

SupportedExts == {ExtCsv, ExtXlsx, ExtXls, ExtParquet, ExtJson}

\* ------------------------------------------------------- datasets and files

\* a pandas DataFrame: its column labels, their dtypes and its row count
DataFrame(cols, types, n) ==
    [tag |-> "df", column_names |-> cols, dtypes |-> types, rows |-> n]

DfA == DataFrame(<<"a", "b">>, <<"int64", "object">>, 3)
DfE == DataFrame(<<"a", "b">>, <<"object", "object">>, 0)
DfU == DataFrame(<<"u", "v", "w">>, <<"int64", "int64", "bool">>, 4)

\* what a file or an upload buffer holds: a table in one format, or bytes
\* no parser accepts
Table(fmt, df) == [format |-> fmt, df |-> df]
Garbage == [format |-> "garbage", df |-> None]

NameA == <<"a", ".", "c", "s", "v">>
NameBad == <<"b", "a", "d", ".", "c", "s", "v">>
NameEmpty == <<"E", ".", "C", "S", "V">>
NameNotes == <<"n", ".", "t", "x", "t">>
NameSub == <<"s", "u", "b">>
NameSecret == <<"s", ".", "c", "s", "v">>
NameGone == <<"g", ".", "c", "s", "v">>

DataDir == "/data"
OtherDir == "/srv"

PathOf(d, n) == [dir |-> d, name |-> n]

\* the filesystem the server runs on: path -> kind, readability, content
FsEntry(d, n, k, r, c) == [path |-> PathOf(d, n), kind |-> k, readable |-> r, content |-> c]

FileSystem ==
    { FsEntry(DataDir, NameA, "file", TRUE, Table("csv", DfA)),
      FsEntry(DataDir, NameBad, "file", TRUE, Garbage),
      FsEntry(OtherDir, NameEmpty, "file", TRUE, Table("csv", DfE)),
      FsEntry(DataDir, NameNotes, "file", TRUE, Table("csv", DfA)),
      FsEntry(DataDir, NameSub, "dir", TRUE, Garbage),
      FsEntry(DataDir, NameSecret, "file", FALSE, Table("csv", DfA)) }

\* the paths a request may name: every entry and one path that is absent
RequestPaths == { e.path : e \in FileSystem } \cup { PathOf(DataDir, NameGone) }

\* files of every name and content the loaders are called on alone, one
\* directory per content
DfN == DataFrame(<<"#1", "#2">>, <<"int64", "int64">>, 2)
LoaderContents ==
    [csv |-> Table("csv", DfA), excel |-> Table("excel", DfU),
     parquet |-> Table("parquet", DfE), json |-> Table("json", DfN),
     garbage |-> Garbage]
LoaderNames ==
    { <<"a", ".", "c", "s", "v">>,
      <<"A", ".", "C", "S", "V">>,
      <<"a", ".", "x", "l", "s", "x">>,
      <<"a", ".", "X", "L", "S">>,
      <<"a", ".", "p", "a", "r", "q", "u", "e", "t">>,
      <<"a", ".", "J", "s", "o", "n">>,
      <<"a", ".", "t", "x", "t">>,
      <<"a">>,
      <<"a", ".", "c", "s", "v", ".", "b", "a", "k">>,
      <<".", "j", "s", "o", "n">> }
LoaderDir(kind) ==
    [csv |-> "/fixtures/csv", excel |-> "/fixtures/excel",
     parquet |-> "/fixtures/parquet", json |-> "/fixtures/json",
     garbage |-> "/fixtures/garbage"][kind]
LoaderFiles ==
    { FsEntry(LoaderDir(k), n, "file", TRUE, LoaderContents[k])
        : k \in DOMAIN LoaderContents, n \in LoaderNames }

\* Path(__file__).parent / 'sample_data.csv', shipped next to app.py
ProjectRoot == "/app"
SampleDataName == <<"s", ".", "c", "s", "v">>
ProjectFiles == { FsEntry(ProjectRoot, SampleDataName, "file", TRUE, Table("csv", DfU)) }

Exists(p) == \E e \in FileSystem \cup ProjectFiles : e.path = p
Entry(p) == CHOOSE e \in FileSystem \cup LoaderFiles \cup ProjectFiles : e.path = p

\* ------------------------------------------------- results and exceptions

Ok(v) == [tag |-> "ok", value |-> v]
Raise(type, msg) == [tag |-> "raise", type |-> type, msg |-> msg]
IsOk(r) == r.tag = "ok"

\* -------------------------------------------------------- validate_file_path

validate_file_path(file_path) ==
    IF ~Exists(file_path)
    THEN Raise("FileNotFoundError", <<"File not found", file_path>>)
    ELSE IF Entry(file_path).kind # "file"
    THEN Raise("ValueError", <<"Path is not a file", file_path>>)
    ELSE IF ~Entry(file_path).readable
    THEN Raise("PermissionError", <<"File is not readable", file_path>>)
    ELSE Ok(file_path)

\* ----------------------------------------------------------------- parsers

\* the four pandas readers: each accepts only content of its own format
Parse(fmt, content) ==
    IF content.format = fmt THEN Ok(content.df)
    ELSE Raise("ParserError", <<"cannot parse as", fmt>>)

read_csv(content) == Parse("csv", content)
read_excel(content) == Parse("excel", content)
read_parquet(content) == Parse("parquet", content)
read_json(content) == Parse("json", content)

\* the column labels that are ints, not strs
IntLabels == {"#1", "#2"}
IsStr(x) == x \notin IntLabels

\* ', '.join(df.columns.tolist()) raises TypeError on a label that is no str
JoinColumns(df) ==
    IF \A i \in DOMAIN df.column_names : IsStr(df.column_names[i])
    THEN Ok(df.column_names)
    ELSE Raise("TypeError", <<"sequence item: expected str instance">>)

SupportedFormats == <<ExtCsv, ExtXlsx, ExtXls, ExtParquet, ExtJson>>

\* the body of the try block shared by the two loaders
Dispatch(file_extension, content) ==
    LET parsed ==
            IF file_extension = ExtCsv THEN read_csv(content)
            ELSE IF file_extension \in {ExtXlsx, ExtXls} THEN read_excel(content)
            ELSE IF file_extension = ExtParquet THEN read_parquet(content)
            ELSE IF file_extension = ExtJson THEN read_json(content)
            ELSE Raise("ValueError",
                       <<"Unsupported file format", file_extension, SupportedFormats>>)
    IN  IF ~IsOk(parsed) THEN parsed
        ELSE IF ~IsOk(JoinColumns(parsed.value)) THEN JoinColumns(parsed.value)
        ELSE parsed

\* load_data letting the exception of the try block through as it is
load_data_unwrapped(file_path) ==
    Dispatch(Lower(NameSuffix(file_path.name)), Entry(file_path).content)

\* load_data: every exception of the try block becomes a ValueError
load_data(file_path) ==
    LET r == Dispatch(Lower(NameSuffix(file_path.name)), Entry(file_path).content)
    IN  IF IsOk(r) THEN r ELSE Raise("ValueError", <<"Error loading file", r.msg>>)

\* a FileStorage whose read() raises
BrokenStream == [format |-> "unreadable", df |-> None]

\* file_content = file_storage.read(), the first statement of the try block
ReadBuffer(content) ==
    IF content = BrokenStream THEN Raise("OSError", <<"read failed">>) ELSE Ok(content)

\* load_data_from_file_storage dispatching on the extension as written
load_data_from_file_storage_case_sensitive(content, filename) ==
    LET r == IF IsOk(ReadBuffer(content)) THEN Dispatch(Suffix(filename), content)
             ELSE ReadBuffer(content)
    IN  IF IsOk(r) THEN r ELSE Raise("ValueError", <<"Error parsing uploaded file", r.msg>>)

\* load_data_from_file_storage: the same over an upload buffer, which is
\* read before the extension is looked at
load_data_from_file_storage(content, filename) ==
    LET r == IF IsOk(ReadBuffer(content)) THEN Dispatch(Lower(Suffix(filename)), content)
             ELSE ReadBuffer(content)
    IN  IF IsOk(r) THEN r ELSE Raise("ValueError", <<"Error parsing uploaded file", r.msg>>)

\* df.empty: some axis has length 0
DfIsEmpty(df) == df.rows = 0 \/ Len(df.column_names) = 0

\* the file_info dict built by main and by the two writers
FileInfo(name, path, df) ==
    [tag |-> "file_info", name |-> name, path |-> path, rows |-> df.rows,
     columns |-> Len(df.column_names), column_names |-> df.column_names,
     dtypes |-> df.dtypes]

\* pyg.to_html: the artifact rendered from a dataframe
to_html(df) == [tag |-> "html", of |-> df]

\* ---------------------------------------------------------- secure_filename

\* characters werkzeug's _filename_ascii_strip_re removes ([^A-Za-z0-9_.-])
UnsafeChars == {" ", "/", "\\"}
IsSafeChar(c) == c \notin UnsafeChars
IsSpace(c) == c = " "

\* filename.replace(os.sep, " ")
ReplaceSep(s) == [i \in DOMAIN s |-> IF s[i] = "/" THEN " " ELSE s[i]]

RECURSIVE LStrip(_, _)
LStrip(s, chars) ==
    IF s # <<>> /\ Head(s) \in chars THEN LStrip(Tail(s), chars) ELSE s

RECURSIVE RStrip(_, _)
RStrip(s, chars) ==
    IF s # <<>> /\ s[Len(s)] \in chars THEN RStrip(SubSeq(s, 1, Len(s) - 1), chars) ELSE s

\* str.strip(chars)
Strip(s, chars) == RStrip(LStrip(s, chars), chars)

\* "_".join(s.split()): runs of whitespace inside become one "_", those at
\* the ends disappear
RECURSIVE JoinWords(_)
JoinWords(s) ==
    IF s = <<>> THEN <<>>
    ELSE IF IsSpace(Head(s))
    THEN LET rest == LStrip(s, {" "})
         IN  IF rest = <<>> THEN <<>> ELSE <<"_">> \o JoinWords(rest)
    ELSE <<Head(s)>> \o JoinWords(Tail(s))

SplitJoin(s) == JoinWords(Strip(s, {" "}))

\* werkzeug.utils.secure_filename on a POSIX host
secure_filename(filename) ==
    Strip(SelectSeq(SplitJoin(ReplaceSep(filename)), IsSafeChar), {".", "_"})

\* ----------------------------------------------------- validate_uploaded_file

MB == 1024 * 1024
\* max_size_mb's default
DefaultMaxSizeMb == 100

\* '..' in filename
HasDotDot(s) == \E i \in 1..(Len(s) - 1) : s[i] = "." /\ s[i + 1] = "."
HasChar(s, c) == \E i \in DOMAIN s : s[i] = c

ALLOWED_EXTENSIONS == {ExtCsv, ExtXlsx, ExtXls, ExtJson, ExtParquet}

\* validate_uploaded_file with the size test before the extension test
validate_uploaded_file_size_first(filename, file_size, max_size_mb) ==
    IF filename = <<>> THEN <<FALSE, "No filename provided">>
    ELSE IF file_size > max_size_mb * MB
    THEN <<FALSE, "File size exceeds maximum allowed size">>
    ELSE IF Lower(Suffix(filename)) \notin ALLOWED_EXTENSIONS
    THEN <<FALSE, "Unsupported file type">>
    ELSE IF HasDotDot(filename) \/ HasChar(filename, "/") \/ HasChar(filename, "\\")
    THEN <<FALSE, "Invalid filename: path traversal detected">>
    ELSE <<TRUE, "None">>

\* validate_uploaded_file looking for '..' and '/' only
validate_uploaded_file_no_backslash(filename, file_size, max_size_mb) ==
    IF filename = <<>> THEN <<FALSE, "No filename provided">>
    ELSE IF Lower(Suffix(filename)) \notin ALLOWED_EXTENSIONS
    THEN <<FALSE, "Unsupported file type">>
    ELSE IF file_size > max_size_mb * MB
    THEN <<FALSE, "File size exceeds maximum allowed size">>
    ELSE IF HasDotDot(filename) \/ HasChar(filename, "/")
    THEN <<FALSE, "Invalid filename: path traversal detected">>
    ELSE <<TRUE, "None">>

\* validate_uploaded_file rejecting a file of exactly the ceiling's size
validate_uploaded_file_size_inclusive(filename, file_size, max_size_mb) ==
    IF filename = <<>> THEN <<FALSE, "No filename provided">>
    ELSE IF Lower(Suffix(filename)) \notin ALLOWED_EXTENSIONS
    THEN <<FALSE, "Unsupported file type">>
    ELSE IF file_size >= max_size_mb * MB
    THEN <<FALSE, "File size exceeds maximum allowed size">>
    ELSE IF HasDotDot(filename) \/ HasChar(filename, "/") \/ HasChar(filename, "\\")
    THEN <<FALSE, "Invalid filename: path traversal detected">>
    ELSE <<TRUE, "None">>

\* returns <<is_valid, error_message>>
validate_uploaded_file(filename, file_size, max_size_mb) ==
    IF filename = <<>> THEN <<FALSE, "No filename provided">>
    ELSE IF Lower(Suffix(filename)) \notin ALLOWED_EXTENSIONS
    THEN <<FALSE, "Unsupported file type">>
    ELSE IF file_size > max_size_mb * MB
    THEN <<FALSE, "File size exceeds maximum allowed size">>
    ELSE IF HasDotDot(filename) \/ HasChar(filename, "/") \/ HasChar(filename, "\\")
    THEN <<FALSE, "Invalid filename: path traversal detected">>
    ELSE <<TRUE, "None">>

\* upload_file_endpoint's call, validate_uploaded_file(safe_filename,
\* file_size): max_size_mb takes its default
UploadValidation(safe_filename, file_size) ==
    validate_uploaded_file(safe_filename, file_size, DefaultMaxSizeMb)

\* -------------------------------------------------------- scan_data_directory

\* the directories a scan may be pointed at; LockedDir lies in a directory
\* the process may not search, so that stat() on it raises PermissionError
MissingDir == "/nope"
FileAsDir == "/etc/hosts"
LockedDir == "/locked/data"
ScanDirs == {DataDir, OtherDir, MissingDir, FileAsDir, LockedDir}

\* Path.exists() and Path.is_dir() return False for a missing path and let
\* every other OSError of stat() through
DirStatRaises(d) == d = LockedDir
DirExists(d) == d # MissingDir
DirIsDir(d) == d \in {DataDir, OtherDir}

\* the entries of a directory
DirEntries(d) == { e \in FileSystem : e.path.dir = d }

\* InsertSorted comparing the names as they are
RECURSIVE InsertSortedCaseSensitive(_, _)
InsertSortedCaseSensitive(seq, x) ==
    IF seq = <<>> THEN <<x>>
    ELSE IF StrLess(x.name, Head(seq).name) THEN <<x>> \o seq
    ELSE <<Head(seq)>> \o InsertSortedCaseSensitive(Tail(seq), x)

\* IsSupportedFile without the is_file() test
HasSupportedSuffix(e) == Lower(NameSuffix(e.path.name)) \in SupportedExts

RECURSIVE InsertSorted(_, _)
InsertSorted(seq, x) ==
    IF seq = <<>> THEN <<x>>
    ELSE IF StrLess(Lower(x.name), Lower(Head(seq).name)) THEN <<x>> \o seq
    ELSE <<Head(seq)>> \o InsertSorted(Tail(seq), x)

\* list.sort(key=lambda p: p.name.lower()), a stable sort
RECURSIVE SortByName(_)
SortByName(seq) ==
    IF seq = <<>> THEN <<>>
    ELSE InsertSorted(SortByName(SubSeq(seq, 1, Len(seq) - 1)), seq[Len(seq)])

\* IsSupportedFile with '.txt' among the supported extensions
IsSupportedFileOrText(e) ==
    /\ e.kind = "file"
    /\ Lower(NameSuffix(e.path.name)) \in SupportedExts \cup {<<".", "t", "x", "t">>}

IsSupportedFile(e) == e.kind = "file" /\ Lower(NameSuffix(e.path.name)) \in SupportedExts

\* the paths of the entries of a listing that pass the scan's filter
RECURSIVE FilterListing(_)
FilterListing(listing) ==
    IF listing = <<>> THEN <<>>
    ELSE (IF IsSupportedFile(Head(listing)) THEN <<Head(listing).path>> ELSE <<>>)
         \o FilterListing(Tail(listing))

\* listing: the entries in the order iterdir() yields them; fault: the
\* exception raised inside the try block (by iterdir(), is_file() or the
\* stat() of the debug log), or "none". The two tests before the try block
\* are not guarded.
scan_data_directory(data_dir, listing, fault) ==
    IF DirStatRaises(data_dir) THEN Raise("PermissionError", data_dir)
    ELSE IF ~DirExists(data_dir) THEN Ok(<<>>)
    ELSE IF ~DirIsDir(data_dir) THEN Ok(<<>>)
    ELSE IF fault = "PermissionError" THEN Ok(<<>>)
    ELSE IF fault # "none" THEN Ok(<<>>)
    ELSE Ok(SortByName(FilterListing(listing)))

ScanFaults == {"none", "PermissionError", "OSError"}

\* one enumeration order of a set of entries
RECURSIVE SetToSeq(_)
SetToSeq(S) ==
    IF S = {} THEN <<>>
    ELSE LET x == CHOOSE y \in S : TRUE IN <<x>> \o SetToSeq(S \ {x})

Reverse(seq) == [i \in DOMAIN seq |-> seq[Len(seq) + 1 - i]]

\* the orders in which the server's directory is enumerated
Listings(d) ==
    IF DirIsDir(d) THEN {SetToSeq(DirEntries(d)), Reverse(SetToSeq(DirEntries(d)))}
    ELSE {<<>>}

\* get_file_metadata
get_file_metadata(file_path) ==
    [name |-> file_path.name, path |-> file_path,
     extension |-> Lower(NameSuffix(file_path.name))]

\* ------------------------------------------------------------------- state

VARIABLES
    app_state,   \* create_app's dict: current_df, current_file_info, pyg_html, lock
    main_pc,     \* where the main thread is: create_app .. serving
    pc,          \* per worker thread: the statement it executes next
    loc,         \* per worker thread: the live local variables of its handler
    req,         \* per worker thread: the request it is serving
    resp,        \* per worker thread: the response it returned, or None
    steps,       \* per worker thread: the stages its request has run, in order
    sel_pc,      \* selector: where prompt_for_file_selection is
    available_files, default_file, max_attempts,   \* selector: its arguments
    attempt,     \* selector: the retry loop's counter
    reads,       \* selector: number of input() calls made
    displays,    \* selector: number of display_file_list() calls made
    last_input,  \* selector: what the latest input() call produced
    sel_result,  \* selector: the Path returned, or None
    sel_outcome, \* selector: how it ended
    call_pc,     \* a library function called on its own: called, returned
    call_args,   \* that call: the function and its arguments
    call_result, \* that call: what it returned or raised, or None
    startup,     \* main: the application file run and its environment
    file_path_str,   \* main: the path get_file_path returned, or None
    called,      \* main: the components it has run and the exception it caught
    exit_code    \* main: the argument of sys.exit, "none" while running

server_vars == <<app_state, main_pc, pc, loc, req, resp, steps>>
sel_vars == <<sel_pc, available_files, default_file, max_attempts, attempt, reads,
              displays, last_input, sel_result, sel_outcome>>
call_vars == <<call_pc, call_args, call_result>>
main_vars == <<startup, file_path_str, called, exit_code>>
vars == <<server_vars, sel_vars, call_vars, main_vars>>

NoLocals == [tag |-> "none"]

\* threading.Lock: free, or held by the thread that acquired it
Free == <<"free", 0>>
MainThread == <<"main", 0>>
Thread(t) == <<"worker", t>>

\* the request a worker is serving
NoRequest == [handler |-> "none", data |-> None]
Request(handler, data) == [handler |-> handler, data |-> data]

\* what one input() call produces: a line of text, or an exception
Line(text) == [kind |-> "line", text |-> text]
Interrupt == [kind |-> "KeyboardInterrupt", text |-> <<>>]
EndOfInput == [kind |-> "EOFError", text |-> <<>>]
NoInput == [kind |-> "none", text |-> <<>>]

\* the dataset main() has loaded when it calls create_app
StartupPaths ==
    { p \in RequestPaths : IsOk(validate_file_path(p)) /\ IsOk(load_data(p)) }

SelIdle ==
    /\ sel_pc = "off"
    /\ available_files = <<>>
    /\ default_file = <<>>
    /\ max_attempts = 0
    /\ attempt = 0
    /\ reads = 0
    /\ displays = 0
    /\ last_input = NoInput
    /\ sel_result = None
    /\ sel_outcome = "none"

NoCall == [fn |-> "none"]

CallIdle ==
    /\ call_pc = "off"
    /\ call_args = NoCall
    /\ call_result = None

\* what main is started with: the application file, DATA_FILE_PATH (None
\* when unset), whether PYGWALKER_PORT is a number, and how /data enumerates
Startup(app, env_file_path, port_ok, listing, fault) ==
    [app |-> app, env_file_path |-> env_file_path, port_ok |-> port_ok,
     listing |-> listing, fault |-> fault]

MainIdle ==
    /\ startup = Startup("none", None, TRUE, <<>>, "none")
    /\ file_path_str = None
    /\ called = <<>>
    /\ exit_code = "none"

\* the slot as create_app's dict literal builds it, lines 488-493
NewAppState(p) ==
    [current_df |-> load_data(p).value,
     current_file_info |-> FileInfo(p.name, p, load_data(p).value),
     pyg_html |-> None,
     lock |-> Free]

\* the server's runs start where main calls create_app on a file that has
\* loaded; main does not read its environment or its path again, and they
\* are left out of these runs
Init ==
    /\ \E p \in StartupPaths : app_state = NewAppState(p)
    /\ startup = Startup("src/pygwalker/app.py", None, TRUE, <<>>, "none")
    /\ file_path_str = None
    /\ called = <<"loader">>
    /\ exit_code = "none"
    /\ main_pc = "create_app"
    /\ pc = [t \in Workers |-> "idle"]
    /\ loc = [t \in Workers |-> NoLocals]
    /\ req = [t \in Workers |-> NoRequest]
    /\ resp = [t \in Workers |-> None]
    /\ steps = [t \in Workers |-> <<>>]
    /\ SelIdle
    /\ CallIdle

\* Lock.acquire() on entering a with block: blocks until the lock is free
Acquire == app_state.lock = Free

\* --------------------------------------------------------------- create_app

\* with app_state['lock']:
CreateAppAcquire ==
    /\ main_pc = "create_app"
    /\ Acquire
    /\ app_state' = [app_state EXCEPT !.lock = MainThread]
    /\ main_pc' = "create_app_render"
    /\ UNCHANGED <<pc, loc, req, resp, steps, sel_vars, call_vars, main_vars>>

\* app_state['pyg_html'] = pyg.to_html(dataframe), then the with block ends;
\* a renderer failure leaves the block (releasing the lock) and ends main
CreateAppRender ==
    /\ main_pc = "create_app_render"
    /\ \E ok \in BOOLEAN :
          IF ok
          THEN /\ app_state' = [app_state EXCEPT
                                   !.pyg_html = to_html(app_state.current_df),
                                   !.lock = Free]
               /\ main_pc' = "serving"
               /\ UNCHANGED <<called, exit_code>>
          ELSE /\ app_state' = [app_state EXCEPT !.lock = Free]
               /\ main_pc' = "exit"
               /\ called' = Append(called, "Exception")
               /\ exit_code' = "1"
    /\ UNCHANGED <<pc, loc, req, resp, steps, sel_vars, call_vars, startup,
                   file_path_str>>

\* --------------------------------------------------------- request plumbing

Response(status, body) == [tag |-> "response", status |-> status, body |-> body]

\* the handler of worker t returns
Return(t, status, body) ==
    /\ resp' = [resp EXCEPT ![t] = Response(status, body)]
    /\ pc' = [pc EXCEPT ![t] = "done"]
    /\ loc' = [loc EXCEPT ![t] = NoLocals]

Goto(t, label, locals) ==
    /\ pc' = [pc EXCEPT ![t] = label]
    /\ loc' = [loc EXCEPT ![t] = locals]
    /\ resp' = resp

\* the stage a request has reached is appended to its record
Stage(t, name) == steps' = [steps EXCEPT ![t] = Append(@, name)] /\ req' = req

\* a request is dispatched to its handler
Begin(t, handler, data) ==
    /\ steps' = [steps EXCEPT ![t] = <<handler>>]
    /\ req' = [req EXCEPT ![t] = Request(handler, data)]

\* a request arrives at idle worker t while the server is running
Arrives(t) == main_pc = "serving" /\ pc[t] = "idle"

\* the worker is free for the next request
Finish(t) ==
    /\ pc[t] = "done"
    /\ pc' = [pc EXCEPT ![t] = "idle"]
    /\ resp' = [resp EXCEPT ![t] = None]
    /\ steps' = [steps EXCEPT ![t] = <<>>]
    /\ req' = [req EXCEPT ![t] = NoRequest]
    /\ UNCHANGED <<app_state, main_pc, loc, sel_vars, call_vars, main_vars>>


\* ----------------------------------------------------------------- GET /

IndexBegin(t) ==
    /\ Arrives(t)
    /\ Goto(t, "index_lock", NoLocals)
    /\ Begin(t, "index", None)
    /\ UNCHANGED <<app_state, main_pc, sel_vars, call_vars, main_vars>>

IndexAcquire(t) ==
    /\ pc[t] = "index_lock"
    /\ Acquire
    /\ app_state' = [app_state EXCEPT !.lock = Thread(t)]
    /\ Goto(t, "index_read_info", NoLocals)
    /\ UNCHANGED <<main_pc, req, steps, sel_vars, call_vars, main_vars>>

\* current_file = app_state['current_file_info']
IndexReadInfo(t) ==
    /\ pc[t] = "index_read_info"
    /\ Goto(t, "index_read_html", [current_file |-> app_state.current_file_info])
    /\ UNCHANGED <<app_state, main_pc, req, steps, sel_vars, call_vars, main_vars>>

\* current_html = app_state['pyg_html']; the with block ends; the page is
\* rendered from the two locals
IndexReadHtml(t) ==
    /\ pc[t] = "index_read_html"
    /\ app_state' = [app_state EXCEPT !.lock = Free]
    /\ Return(t, 200, [pyg_html |-> app_state.pyg_html,
                       file_name |-> loc[t].current_file.name,
                       rows |-> loc[t].current_file.rows,
                       columns |-> loc[t].current_file.columns])
    /\ UNCHANGED <<main_pc, req, steps, sel_vars, call_vars, main_vars>>

\* ------------------------------------------------------------ GET /health

HealthBegin(t) ==
    /\ Arrives(t)
    /\ Goto(t, "health_lock", NoLocals)
    /\ Begin(t, "health", None)
    /\ UNCHANGED <<app_state, main_pc, sel_vars, call_vars, main_vars>>

HealthAcquire(t) ==
    /\ pc[t] = "health_lock"
    /\ Acquire
    /\ app_state' = [app_state EXCEPT !.lock = Thread(t)]
    /\ Goto(t, "health_read", NoLocals)
    /\ UNCHANGED <<main_pc, req, steps, sel_vars, call_vars, main_vars>>

\* current_file = app_state['current_file_info']; the with block ends; the
\* body is built from the local
HealthRead(t) ==
    /\ pc[t] = "health_read"
    /\ app_state' = [app_state EXCEPT !.lock = Free]
    /\ Return(t, 200, [status |-> "healthy",
                       file |-> app_state.current_file_info.name,
                       rows |-> app_state.current_file_info.rows,
                       columns |-> app_state.current_file_info.columns])
    /\ UNCHANGED <<main_pc, req, steps, sel_vars, call_vars, main_vars>>

\* -------------------------------------------------------------- GET /info

InfoBegin(t) ==
    /\ Arrives(t)
    /\ Goto(t, "info_lock", NoLocals)
    /\ Begin(t, "info", None)
    /\ UNCHANGED <<app_state, main_pc, sel_vars, call_vars, main_vars>>

InfoAcquire(t) ==
    /\ pc[t] = "info_lock"
    /\ Acquire
    /\ app_state' = [app_state EXCEPT !.lock = Thread(t)]
    /\ Goto(t, "info_read", NoLocals)
    /\ UNCHANGED <<main_pc, req, steps, sel_vars, call_vars, main_vars>>

InfoRead(t) ==
    /\ pc[t] = "info_read"
    /\ app_state' = [app_state EXCEPT !.lock = Free]
    /\ Return(t, 200, app_state.current_file_info)
    /\ UNCHANGED <<main_pc, req, steps, sel_vars, call_vars, main_vars>>

\* --------------------------------------------------------- GET /api/files

\* ListFilesMetadata publishing the listing's first file name in the slot
ListFilesMetadataTouchesSlot(t) ==
    /\ pc[t] = "files_metadata"
    /\ app_state' = [app_state EXCEPT
                         !.current_file_info.rows = Len(loc[t].available_files)]
    /\ Return(t, 200,
              [files |-> [i \in DOMAIN loc[t].available_files |->
                             get_file_metadata(loc[t].available_files[i])],
               count |-> Len(loc[t].available_files)])
    /\ UNCHANGED <<main_pc, req, steps, sel_vars, call_vars, main_vars>>

\* data_dir = os.environ.get('DATA_DIR', '/data'); scan_data_directory
ListFilesScan(t) ==
    /\ Arrives(t)
    /\ \E data_dir \in ScanDirs, fault \in ScanFaults :
         \E listing \in Listings(data_dir) :
            LET scanned == scan_data_directory(data_dir, listing, fault)
            IN  /\ Begin(t, "list_files", None)
                /\ IF ~IsOk(scanned)
                   THEN Return(t, 500, [error |-> scanned.type,
                                        message |-> "Failed to list files"])
                   ELSE IF scanned.value = <<>>
                   THEN Return(t, 200, [files |-> <<>>, count |-> 0,
                                        message |-> "No data files found"])
                   ELSE Goto(t, "files_metadata", [available_files |-> scanned.value])
    /\ UNCHANGED <<app_state, main_pc, sel_vars, call_vars, main_vars>>

\* [get_file_metadata(f) for f in available_files]; a stat() that fails
\* (the file vanished after the scan) is answered with 500
ListFilesMetadata(t) ==
    /\ pc[t] = "files_metadata"
    /\ \E stat_ok \in BOOLEAN :
          IF stat_ok
          THEN Return(t, 200,
                      [files |-> [i \in DOMAIN loc[t].available_files |->
                                     get_file_metadata(loc[t].available_files[i])],
                       count |-> Len(loc[t].available_files)])
          ELSE Return(t, 500, [error |-> "FileNotFoundError",
                               message |-> "Failed to list files"])
    /\ UNCHANGED <<app_state, main_pc, req, steps, sel_vars, call_vars, main_vars>>

\* ---------------------------------------------------- POST /api/load-file

NoPath == PathOf("", <<>>)

\* request.get_json(): null or {} (falsy), an object without the key, or an
\* object whose file_path names a path
LoadBodies ==
    { [kind |-> "falsy", file_path |-> NoPath],
      [kind |-> "no_file_path", file_path |-> NoPath] }
    \cup { [kind |-> "object", file_path |-> p] : p \in RequestPaths }

\* if not data or 'file_path' not in data
MissingFilePath(data) == data.kind = "falsy" \/ data.kind # "object"

\* LoadBegin with the path confined to the directory of DATA_DIR
LoadBeginInsideDataDir(t) ==
    /\ Arrives(t)
    /\ \E data \in LoadBodies :
          /\ Begin(t, "load_file", data)
          /\ IF MissingFilePath(data)
             THEN Return(t, 400, [error |-> "Missing file_path in request body"])
             ELSE IF data.file_path.dir # DataDir
             THEN Return(t, 400, [error |-> "Path outside the data directory"])
             ELSE Goto(t, "load_validate", [file_path_str |-> data.file_path])
    /\ UNCHANGED <<app_state, main_pc, sel_vars, call_vars, main_vars>>

LoadBegin(t) ==
    /\ Arrives(t)
    /\ \E data \in LoadBodies :
          /\ Begin(t, "load_file", data)
          /\ IF MissingFilePath(data)
             THEN Return(t, 400, [error |-> "Missing file_path in request body"])
             ELSE Goto(t, "load_validate", [file_path_str |-> data.file_path])
    /\ UNCHANGED <<app_state, main_pc, sel_vars, call_vars, main_vars>>

\* LoadValidateStatus with FileNotFoundError caught by the second clause
LoadValidateStatusNo404(exc) ==
    IF exc.type \in {"FileNotFoundError", "PermissionError", "ValueError"} THEN 400
    ELSE 500

\* the status the handler gives to an exception of validate_file_path
LoadValidateStatus(exc) ==
    IF exc.type = "FileNotFoundError" THEN 404
    ELSE IF exc.type \in {"PermissionError", "ValueError"} THEN 400
    ELSE 500

LoadValidate(t) ==
    /\ pc[t] = "load_validate"
    /\ LET r == validate_file_path(loc[t].file_path_str)
       IN  IF IsOk(r)
           THEN Goto(t, "load_parse", [validated_path |-> r.value])
           ELSE Return(t, LoadValidateStatus(r), [error |-> r.msg])
    /\ Stage(t, "validate")
    /\ UNCHANGED <<app_state, main_pc, sel_vars, call_vars, main_vars>>

\* LoadParse followed by the empty-dataset rejection of the upload endpoint
LoadParseRejectsEmpty(t) ==
    /\ pc[t] = "load_parse"
    /\ LET r == load_data(loc[t].validated_path)
       IN  IF ~IsOk(r)
           THEN Return(t, IF r.type = "ValueError" THEN 400 ELSE 500, [error |-> r.msg])
           ELSE IF DfIsEmpty(r.value)
           THEN Return(t, 400, [error |-> "Uploaded file contains no data"])
           ELSE Goto(t, "load_render", [validated_path |-> loc[t].validated_path,
                                        df |-> r.value])
    /\ Stage(t, "parse")
    /\ UNCHANGED <<app_state, main_pc, sel_vars, call_vars, main_vars>>

\* df = load_data(validated_path); except ValueError: 400
LoadParse(t) ==
    /\ pc[t] = "load_parse"
    /\ LET r == load_data(loc[t].validated_path)
       IN  IF IsOk(r)
           THEN Goto(t, "load_render", [validated_path |-> loc[t].validated_path,
                                        df |-> r.value])
           ELSE Return(t, IF r.type = "ValueError" THEN 400 ELSE 500, [error |-> r.msg])
    /\ Stage(t, "parse")
    /\ UNCHANGED <<app_state, main_pc, sel_vars, call_vars, main_vars>>

\* LoadRender without the outer except Exception: a renderer failure leaves
\* the handler, and the framework answers with its own HTML error page
LoadRenderUnhandled(t) ==
    /\ pc[t] = "load_render"
    /\ \E ok \in BOOLEAN :
          IF ok
          THEN Goto(t, "load_lock",
                    [df |-> loc[t].df,
                     new_pyg_html |-> to_html(loc[t].df),
                     new_file_info |-> FileInfo(loc[t].validated_path.name,
                                                loc[t].validated_path, loc[t].df)])
          ELSE Return(t, 500, [page |-> "Internal Server Error"])
    /\ Stage(t, "render")
    /\ UNCHANGED <<app_state, main_pc, sel_vars, call_vars, main_vars>>

\* new_pyg_html = pyg.to_html(df), then new_file_info; a renderer failure
\* reaches the handler's outer except Exception: 500
LoadRender(t) ==
    /\ pc[t] = "load_render"
    /\ \E ok \in BOOLEAN :
          IF ok
          THEN Goto(t, "load_lock",
                    [df |-> loc[t].df,
                     new_pyg_html |-> to_html(loc[t].df),
                     new_file_info |-> FileInfo(loc[t].validated_path.name,
                                                loc[t].validated_path, loc[t].df)])
          ELSE Return(t, 500, [error |-> "Internal server error"])
    /\ Stage(t, "render")
    /\ UNCHANGED <<app_state, main_pc, sel_vars, call_vars, main_vars>>

LoadAcquire(t) ==
    /\ pc[t] = "load_lock"
    /\ Acquire
    /\ app_state' = [app_state EXCEPT !.lock = Thread(t)]
    /\ Goto(t, "load_swap_df", loc[t])
    /\ UNCHANGED <<main_pc, req, steps, sel_vars, call_vars, main_vars>>

\* app_state['current_df'] = df
LoadSwapDf(t) ==
    /\ pc[t] = "load_swap_df"
    /\ app_state' = [app_state EXCEPT !.current_df = loc[t].df]
    /\ Goto(t, "load_swap_info", loc[t])
    /\ Stage(t, "swap")
    /\ UNCHANGED <<main_pc, req, sel_vars, call_vars, main_vars>>

\* LoadSwapInfo with the with block ending one statement early, so that
\* pyg_html is assigned after the lock is released
LoadSwapInfoEarlyRelease(t) ==
    /\ pc[t] = "load_swap_info"
    /\ app_state' = [app_state EXCEPT !.current_file_info = loc[t].new_file_info,
                                      !.lock = Free]
    /\ Goto(t, "load_swap_html", loc[t])
    /\ UNCHANGED <<main_pc, req, steps, sel_vars, call_vars, main_vars>>

\* app_state['current_file_info'] = new_file_info
LoadSwapInfo(t) ==
    /\ pc[t] = "load_swap_info"
    /\ app_state' = [app_state EXCEPT !.current_file_info = loc[t].new_file_info]
    /\ Goto(t, "load_swap_html", loc[t])
    /\ UNCHANGED <<main_pc, req, steps, sel_vars, call_vars, main_vars>>

\* LoadSwapHtml with the lock taken by acquire() and never released
LoadSwapHtmlKeepsLock(t) ==
    /\ pc[t] = "load_swap_html"
    /\ app_state' = [app_state EXCEPT !.pyg_html = loc[t].new_pyg_html]
    /\ Goto(t, "load_respond", loc[t])
    /\ UNCHANGED <<main_pc, req, steps, sel_vars, call_vars, main_vars>>

\* app_state['pyg_html'] = new_pyg_html; the with block ends
LoadSwapHtml(t) ==
    /\ pc[t] = "load_swap_html"
    /\ app_state' = [app_state EXCEPT !.pyg_html = loc[t].new_pyg_html, !.lock = Free]
    /\ Goto(t, "load_respond", loc[t])
    /\ UNCHANGED <<main_pc, req, steps, sel_vars, call_vars, main_vars>>

\* the success body: html and four fields of new_file_info
SuccessBody(html, info) ==
    [success |-> TRUE, html |-> html,
     file_info |-> [name |-> info.name, rows |-> info.rows, columns |-> info.columns,
                    column_names |-> info.column_names]]

\* LoadRespond failing after the swap: the outer except Exception answers 500
LoadRespondFails(t) ==
    /\ pc[t] = "load_respond"
    /\ Return(t, 500, [error |-> "Internal server error"])
    /\ UNCHANGED <<app_state, main_pc, req, steps, sel_vars, call_vars, main_vars>>

LoadRespond(t) ==
    /\ pc[t] = "load_respond"
    /\ Return(t, 200, SuccessBody(loc[t].new_pyg_html, loc[t].new_file_info))
    /\ UNCHANGED <<app_state, main_pc, req, steps, sel_vars, call_vars, main_vars>>

\* -------------------------------------------------- POST /api/upload-file

RawPlain == <<"u", ".", "c", "s", "v">>
RawTraversal == <<".", ".", "/", "u", ".", "c", "s", "v">>
RawDots == <<".", ".">>
RawText == <<"n", ".", "t", "x", "t">>

\* uploaded_file.filename: what the client sent
UploadNames == {<<>>, RawPlain, RawTraversal, RawDots, RawText}

\* uploaded_file.tell() after seeking to the end
UploadSizes == {0, 4096, DefaultMaxSizeMb * MB, DefaultMaxSizeMb * MB + 1}

\* the bytes of the upload
UploadContents == {Table("csv", DfU), Table("csv", DfE), Garbage}

\* request.files: without a 'file' field, or with one carrying a filename
UploadForms ==
    { [has_file |-> FALSE, filename |-> <<>>] }
    \cup { [has_file |-> TRUE, filename |-> n] : n \in UploadNames }

UploadBegin(t) ==
    /\ Arrives(t)
    /\ \E files \in UploadForms :
          /\ Begin(t, "upload_file", None)
          /\ IF ~files.has_file
             THEN Return(t, 400, [error |-> "No file provided"])
             ELSE IF files.filename = <<>>
             THEN Return(t, 400, [error |-> "No file selected"])
             ELSE Goto(t, "upload_sanitize", [original_filename |-> files.filename])
    /\ UNCHANGED <<app_state, main_pc, sel_vars, call_vars, main_vars>>

\* safe_filename = secure_filename(original_filename)
UploadSanitize(t) ==
    /\ pc[t] = "upload_sanitize"
    /\ Goto(t, "upload_validate",
            [safe_filename |-> secure_filename(loc[t].original_filename)])
    /\ Stage(t, "sanitize")
    /\ UNCHANGED <<app_state, main_pc, sel_vars, call_vars, main_vars>>

\* file_size = uploaded_file.tell(); validate_uploaded_file(safe_filename, file_size)
UploadValidate(t) ==
    /\ pc[t] = "upload_validate"
    /\ \E file_size \in UploadSizes :
          LET v == UploadValidation(loc[t].safe_filename, file_size)
          IN  IF v[1]
              THEN Goto(t, "upload_parse", loc[t])
              ELSE Return(t, 400, [error |-> v[2]])
    /\ Stage(t, "validate")
    /\ UNCHANGED <<app_state, main_pc, sel_vars, call_vars, main_vars>>

\* df = load_data_from_file_storage(uploaded_file, safe_filename)
UploadParse(t) ==
    /\ pc[t] = "upload_parse"
    /\ \E content \in UploadContents :
          LET r == load_data_from_file_storage(content, loc[t].safe_filename)
          IN  IF IsOk(r)
              THEN Goto(t, "upload_empty_check",
                        [safe_filename |-> loc[t].safe_filename, df |-> r.value])
              ELSE Return(t, IF r.type = "ValueError" THEN 400 ELSE 500, [error |-> r.msg])
    /\ Stage(t, "parse")
    /\ UNCHANGED <<app_state, main_pc, sel_vars, call_vars, main_vars>>

\* UploadEmptyCheck without the rejection
UploadEmptyCheckSkipped(t) ==
    /\ pc[t] = "upload_empty_check"
    /\ Goto(t, "upload_render", loc[t])
    /\ Stage(t, "empty_check")
    /\ UNCHANGED <<app_state, main_pc, sel_vars, call_vars, main_vars>>

\* if df.empty: 400
UploadEmptyCheck(t) ==
    /\ pc[t] = "upload_empty_check"
    /\ IF DfIsEmpty(loc[t].df)
       THEN Return(t, 400, [error |-> "Uploaded file contains no data"])
       ELSE Goto(t, "upload_render", loc[t])
    /\ Stage(t, "empty_check")
    /\ UNCHANGED <<app_state, main_pc, sel_vars, call_vars, main_vars>>

UploadedPath(safe_filename) == [dir |-> "uploaded:", name |-> safe_filename]

UploadRender(t) ==
    /\ pc[t] = "upload_render"
    /\ \E ok \in BOOLEAN :
          IF ok
          THEN Goto(t, "upload_lock",
                    [df |-> loc[t].df,
                     new_pyg_html |-> to_html(loc[t].df),
                     new_file_info |-> FileInfo(loc[t].safe_filename,
                                                UploadedPath(loc[t].safe_filename),
                                                loc[t].df)])
          ELSE Return(t, 500, [error |-> "Internal server error"])
    /\ Stage(t, "render")
    /\ UNCHANGED <<app_state, main_pc, sel_vars, call_vars, main_vars>>

\* UploadAcquire entering its block without waiting for the lock
UploadAcquireNoWait(t) ==
    /\ pc[t] = "upload_lock"
    /\ app_state' = [app_state EXCEPT !.lock = Thread(t)]
    /\ Goto(t, "upload_swap_df", loc[t])
    /\ UNCHANGED <<main_pc, req, steps, sel_vars, call_vars, main_vars>>

UploadAcquire(t) ==
    /\ pc[t] = "upload_lock"
    /\ Acquire
    /\ app_state' = [app_state EXCEPT !.lock = Thread(t)]
    /\ Goto(t, "upload_swap_df", loc[t])
    /\ UNCHANGED <<main_pc, req, steps, sel_vars, call_vars, main_vars>>

UploadSwapDf(t) ==
    /\ pc[t] = "upload_swap_df"
    /\ app_state' = [app_state EXCEPT !.current_df = loc[t].df]
    /\ Goto(t, "upload_swap_info", loc[t])
    /\ Stage(t, "swap")
    /\ UNCHANGED <<main_pc, req, sel_vars, call_vars, main_vars>>

UploadSwapInfo(t) ==
    /\ pc[t] = "upload_swap_info"
    /\ app_state' = [app_state EXCEPT !.current_file_info = loc[t].new_file_info]
    /\ Goto(t, "upload_swap_html", loc[t])
    /\ UNCHANGED <<main_pc, req, steps, sel_vars, call_vars, main_vars>>

UploadSwapHtml(t) ==
    /\ pc[t] = "upload_swap_html"
    /\ app_state' = [app_state EXCEPT !.pyg_html = loc[t].new_pyg_html, !.lock = Free]
    /\ Goto(t, "upload_respond", loc[t])
    /\ UNCHANGED <<main_pc, req, steps, sel_vars, call_vars, main_vars>>

UploadRespond(t) ==
    /\ pc[t] = "upload_respond"
    /\ Return(t, 200, SuccessBody(loc[t].new_pyg_html, loc[t].new_file_info))
    /\ UNCHANGED <<app_state, main_pc, req, steps, sel_vars, call_vars, main_vars>>

\* ------------------------------------------------------------ the server

Next ==
    \/ CreateAppAcquire
    \/ CreateAppRender
    \/ \E t \in Workers :
          \/ IndexBegin(t) \/ IndexAcquire(t) \/ IndexReadInfo(t) \/ IndexReadHtml(t)
          \/ HealthBegin(t) \/ HealthAcquire(t) \/ HealthRead(t)
          \/ InfoBegin(t) \/ InfoAcquire(t) \/ InfoRead(t)
          \/ ListFilesScan(t) \/ ListFilesMetadata(t)
          \/ LoadBegin(t) \/ LoadValidate(t) \/ LoadParse(t) \/ LoadRender(t)
          \/ LoadAcquire(t) \/ LoadSwapDf(t) \/ LoadSwapInfo(t) \/ LoadSwapHtml(t)
          \/ LoadRespond(t)
          \/ UploadBegin(t) \/ UploadSanitize(t) \/ UploadValidate(t) \/ UploadParse(t)
          \/ UploadEmptyCheck(t) \/ UploadRender(t)
          \/ UploadAcquire(t) \/ UploadSwapDf(t) \/ UploadSwapInfo(t) \/ UploadSwapHtml(t)
          \/ UploadRespond(t)
          \/ Finish(t)

Spec == Init /\ [][Next]_vars

\* the steps by which worker t carries on a request it has begun, other
\* than entering a with block
Continues(t) ==
    \/ IndexReadInfo(t) \/ IndexReadHtml(t) \/ HealthRead(t) \/ InfoRead(t)
    \/ ListFilesMetadata(t)
    \/ LoadValidate(t) \/ LoadParse(t) \/ LoadRender(t)
    \/ LoadSwapDf(t) \/ LoadSwapInfo(t) \/ LoadSwapHtml(t) \/ LoadRespond(t)
    \/ UploadSanitize(t) \/ UploadValidate(t) \/ UploadParse(t)
    \/ UploadEmptyCheck(t) \/ UploadRender(t)
    \/ UploadSwapDf(t) \/ UploadSwapInfo(t) \/ UploadSwapHtml(t) \/ UploadRespond(t)

\* worker t enters a with app_state['lock'] block
Enters(t) ==
    \/ IndexAcquire(t) \/ HealthAcquire(t) \/ InfoAcquire(t)
    \/ LoadAcquire(t) \/ UploadAcquire(t)

\* fair scheduling: a thread that can run does run (each parse and render
\* ends), and a thread waiting for a lock that is free again and again
\* gets it
Fairness ==
    /\ WF_vars(CreateAppAcquire \/ CreateAppRender)
    /\ \A t \in Workers : WF_vars(Continues(t)) /\ SF_vars(Enters(t))

\* the requests that arrive where progress is examined: a load without a
\* body, of a file that loads and of a path that is absent, an upload
\* without a file part or under a plain name; every other kind of request
FairInputs(t) ==
    /\ req[t].handler = "load_file" =>
          \/ req[t].data.kind = "falsy"
          \/ /\ req[t].data.kind = "object"
             /\ req[t].data.file_path \in {PathOf(DataDir, NameA), PathOf(DataDir, NameGone)}
    /\ pc[t] = "upload_sanitize" => loc[t].original_filename = RawPlain

FairNext == Next /\ \A t \in Workers : FairInputs(t)'

FairSpec == Init /\ [][FairNext]_vars /\ Fairness

\* ------------------------------------------------ prompt_for_file_selection

DigitChars == <<"0", "1", "2", "3", "4", "5", "6", "7", "8", "9">>
IsDigit(c) == \E i \in DOMAIN DigitChars : DigitChars[i] = c
DigitValue(c) == (CHOOSE i \in DOMAIN DigitChars : DigitChars[i] = c) - 1
DigitOf(n) == DigitChars[n + 1]

RECURSIVE DecimalValue(_)
DecimalValue(s) ==
    IF s = <<>> THEN 0
    ELSE 10 * DecimalValue(SubSeq(s, 1, Len(s) - 1)) + DigitValue(s[Len(s)])

AllDigits(s) == s # <<>> /\ \A i \in DOMAIN s : IsDigit(s[i])

\* int(user_input): an optional sign and decimal digits, else ValueError
ParseInt(s) ==
    IF AllDigits(s) THEN Ok(DecimalValue(s))
    ELSE IF s # <<>> /\ Head(s) = "-" /\ AllDigits(Tail(s)) THEN Ok(0 - DecimalValue(Tail(s)))
    ELSE IF s # <<>> /\ Head(s) = "+" /\ AllDigits(Tail(s)) THEN Ok(DecimalValue(Tail(s)))
    ELSE Raise("ValueError", "invalid literal for int()")

\* the loop that looks for default_file among the names: the 1-based index
\* of the first match, 0 standing for None
RECURSIVE FirstMatch(_, _, _)
FirstMatch(files, name, i) ==
    IF i > Len(files) THEN 0
    ELSE IF files[i].name = name THEN i
    ELSE FirstMatch(files, name, i + 1)

default_index(files, name) == FirstMatch(files, name, 1)

\* the branch taken both on empty input and after the last attempt
DefaultOrFirstFile(files, name) ==
    IF default_index(files, name) # 0
    THEN files[default_index(files, name)]
    ELSE files[1]

\* if not user_input or user_input.isspace()
IsBlank(user_input) == user_input = <<>> \/ \A i \in DOMAIN user_input : user_input[i] = " "

\* the selector's callers pass file names of the data directory
SelFileName(i) == <<DigitOf(i), ".", "c", "s", "v">>
SampleName == <<"s", ".", "c", "s", "v">>
SelPaths == { PathOf(DataDir, SelFileName(i)) : i \in 1..(MaxFiles - 1) }
            \cup { PathOf(DataDir, SampleName) }

\* lists of distinct files, the empty list included
SelLists ==
    UNION { { f \in [1..n -> SelPaths] : \A i, j \in 1..n : i # j => f[i] # f[j] }
            : n \in 0..MaxFiles }

SelDefaults == { SampleName, SelFileName(1) }

\* max_attempts as callers may pass it (the default is 5)
SelMaxAttempts == (0 - 1)..MaxAttemptsBound

\* the lines a user may type, and the two exceptions input() may raise
InputLines ==
    { <<>>, <<" ">>, <<"x">>, <<"1", "x">>, <<"-", "1">>, <<" ", "2", " ">>, <<"1", "0">> }
    \cup { <<DigitOf(i)>> : i \in 0..(MaxFiles + 1) }
Inputs == { Line(l) : l \in InputLines } \cup { Interrupt, EndOfInput }

ServerOff ==
    /\ app_state = [current_df |-> None, current_file_info |-> None,
                    pyg_html |-> None, lock |-> Free]
    /\ main_pc = "off"
    /\ pc = [t \in Workers |-> "idle"]
    /\ loc = [t \in Workers |-> NoLocals]
    /\ req = [t \in Workers |-> NoRequest]
    /\ resp = [t \in Workers |-> None]
    /\ steps = [t \in Workers |-> <<>>]

\* the selector is called
SelInit ==
    /\ ServerOff
    /\ sel_pc = "start"
    /\ available_files \in SelLists
    /\ default_file \in SelDefaults
    /\ max_attempts \in SelMaxAttempts
    /\ attempt = 0
    /\ reads = 0
    /\ displays = 0
    /\ last_input = NoInput
    /\ sel_result = None
    /\ sel_outcome = "none"
    /\ CallIdle
    /\ MainIdle

SelReturn(path, outcome) ==
    /\ sel_pc' = "returned"
    /\ sel_result' = path
    /\ sel_outcome' = outcome

\* an exception leaves the selector
SelRaise(outcome) ==
    /\ sel_pc' = "raised"
    /\ sel_outcome' = outcome
    /\ sel_result' = sel_result

\* display_file_list() calls file_path.stat() on every listed file, which
\* raises OSError for a file that is gone since the scan
DisplayOutcomes == {"shown", "OSError"}

\* lines 171-218: the empty list returns /data/<default_file>; otherwise the
\* list is displayed once, outside the try, and the retry loop starts with
\* attempt = 0
SelStart ==
    /\ sel_pc = "start"
    /\ IF available_files = <<>>
       THEN /\ SelReturn(PathOf(DataDir, default_file), "empty_list")
            /\ displays' = displays
       ELSE \E d \in DisplayOutcomes :
               IF d = "shown"
               THEN /\ sel_pc' = "loop"
                    /\ displays' = displays + 1
                    /\ UNCHANGED <<sel_result, sel_outcome>>
               ELSE /\ SelRaise("display_error")
                    /\ displays' = displays
    /\ attempt' = 0
    /\ UNCHANGED <<available_files, default_file, max_attempts, reads, last_input,
                   server_vars, call_vars, main_vars>>

\* SelLoopTest with the loop condition attempt <= max_attempts
SelLoopTestOffByOne ==
    /\ sel_pc = "loop"
    /\ IF attempt <= max_attempts
       THEN /\ sel_pc' = "input"
            /\ UNCHANGED <<sel_result, sel_outcome>>
       ELSE SelReturn(DefaultOrFirstFile(available_files, default_file),
                      "default_exhausted")
    /\ UNCHANGED <<available_files, default_file, max_attempts, attempt, reads, displays,
                   last_input, server_vars, call_vars, main_vars>>

\* while attempt < max_attempts; after the loop, lines 273-282
SelLoopTest ==
    /\ sel_pc = "loop"
    /\ IF attempt < max_attempts
       THEN /\ sel_pc' = "input"
            /\ UNCHANGED <<sel_result, sel_outcome>>
       ELSE SelReturn(DefaultOrFirstFile(available_files, default_file),
                      "default_exhausted")
    /\ UNCHANGED <<available_files, default_file, max_attempts, attempt, reads, displays,
                   last_input, server_vars, call_vars, main_vars>>

SelContinue(a, shown) ==
    /\ attempt' = a
    /\ displays' = displays + shown
    /\ sel_pc' = "loop"
    /\ UNCHANGED <<sel_result, sel_outcome>>

\* except Exception, lines 264-271, entered with the counter at a: the
\* counter is incremented and the list shown again below the ceiling; an
\* exception of that display is raised inside the handler and leaves the
\* function
SelExceptClause(a) ==
    IF a + 1 < max_attempts
    THEN \E d \in DisplayOutcomes :
            IF d = "shown"
            THEN SelContinue(a + 1, 1)
            ELSE /\ attempt' = a + 1
                 /\ displays' = displays
                 /\ SelRaise("display_error")
    ELSE SelContinue(a + 1, 0)

\* an invalid input, lines 238-244 and 248-254: attempt += 1, the list is
\* shown again below the ceiling, continue; an exception of that display is
\* raised inside the try and caught by except Exception
SelInvalid ==
    IF attempt + 1 < max_attempts
    THEN \E d \in DisplayOutcomes :
            IF d = "shown"
            THEN SelContinue(attempt + 1, 1)
            ELSE SelExceptClause(attempt + 1)
    ELSE SelContinue(attempt + 1, 0)

\* SelHandleLine without the branch for empty input
SelHandleLineBlankInvalid(raw) ==
    LET user_input == Strip(raw, {" "})
        parsed == ParseInt(user_input)
    IN  IF ~IsOk(parsed)
        THEN SelInvalid
        ELSE IF parsed.value < 1 \/ parsed.value > Len(available_files)
        THEN SelInvalid
        ELSE /\ SelReturn(available_files[parsed.value], "explicit")
             /\ UNCHANGED <<attempt, displays>>

\* what one pass of the loop body does with the line it read
SelHandleLine(raw) ==
    LET user_input == Strip(raw, {" "})
        parsed == ParseInt(user_input)
    IN  IF IsBlank(user_input)
        THEN /\ SelReturn(DefaultOrFirstFile(available_files, default_file),
                          "default_empty")
             /\ UNCHANGED <<attempt, displays>>
        ELSE IF ~IsOk(parsed)
        THEN SelInvalid
        ELSE IF parsed.value < 1 \/ parsed.value > Len(available_files)
        THEN SelInvalid
        ELSE /\ SelReturn(available_files[parsed.value], "explicit")
             /\ UNCHANGED <<attempt, displays>>

\* SelInput with KeyboardInterrupt handled by the except Exception clause
SelInputSwallowsInterrupt ==
    /\ sel_pc = "input"
    /\ \E in \in Inputs :
          /\ last_input' = in
          /\ reads' = reads + 1
          /\ IF in.kind \in {"KeyboardInterrupt", "EOFError"}
             THEN SelExceptClause(attempt)
             ELSE SelHandleLine(in.text)
    /\ UNCHANGED <<available_files, default_file, max_attempts, server_vars, call_vars, main_vars>>

\* one pass of the loop body, lines 220-271, around one input() call
SelInput ==
    /\ sel_pc = "input"
    /\ \E in \in Inputs :
          /\ last_input' = in
          /\ reads' = reads + 1
          /\ IF in.kind = "KeyboardInterrupt"
             THEN /\ SelRaise("cancelled")
                  /\ UNCHANGED <<attempt, displays>>
             ELSE IF in.kind = "EOFError"
             THEN SelExceptClause(attempt)
             ELSE SelHandleLine(in.text)
    /\ UNCHANGED <<available_files, default_file, max_attempts, server_vars, call_vars, main_vars>>

SelNext == SelStart \/ SelLoopTest \/ SelInput

SelSpec == SelInit /\ [][SelNext]_vars

\* every input() call returns or raises: the selector is not left waiting
SelFairSpec == SelInit /\ [][SelNext]_vars /\ WF_vars(SelNext)

\* ===================================================== properties: server

\* ------------------------------------------------------------------ main

\* prompt_for_file_selection's default for max_attempts
DefaultMaxAttempts == 5

\* the two application files
AppFiles == {"src/app.py", "src/pygwalker/app.py"}

\* how main may be started: DATA_FILE_PATH unset or naming any path,
\* PYGWALKER_PORT a number or not, /data enumerated in either order or failing
Startups ==
    { Startup(app, env, port_ok, <<>>, "none")
        : app \in AppFiles, env \in RequestPaths, port_ok \in BOOLEAN }
    \cup
    { Startup(app, None, port_ok, listing, fault)
        : app \in AppFiles, port_ok \in BOOLEAN,
          listing \in Listings(DataDir), fault \in ScanFaults }

MainInit ==
    /\ app_state = [current_df |-> None, current_file_info |-> None,
                    pyg_html |-> None, lock |-> Free]
    /\ main_pc = "start"
    /\ pc = [t \in Workers |-> "idle"]
    /\ loc = [t \in Workers |-> NoLocals]
    /\ req = [t \in Workers |-> NoRequest]
    /\ resp = [t \in Workers |-> None]
    /\ steps = [t \in Workers |-> <<>>]
    /\ SelIdle
    /\ CallIdle
    /\ startup \in Startups
    /\ file_path_str = None
    /\ called = <<>>
    /\ exit_code = "none"

\* an exception reaches one of main's except clauses: KeyboardInterrupt
\* ends with sys.exit(0), every other clause with sys.exit(1)
MainCatches(type) ==
    /\ main_pc' = "exit"
    /\ called' = Append(called, type)
    /\ exit_code' = IF type = "KeyboardInterrupt" THEN "0" ELSE "1"

\* port = int(os.environ.get('PYGWALKER_PORT', '8888')), before the try
\* block: a ValueError here leaves main
MainParsePort ==
    /\ main_pc = "start"
    /\ main_pc' = IF startup.port_ok THEN "get_file_path" ELSE "raised"
    /\ UNCHANGED <<app_state, pc, loc, req, resp, steps, sel_vars, call_vars, main_vars>>

\* get_file_path where it does not prompt: DATA_FILE_PATH when set; else,
\* in src/pygwalker/app.py, sample_data.csv next to app.py; in src/app.py,
\* /data/sample_data.csv when the scan of /data finds nothing
MainGetFilePath ==
    /\ main_pc = "get_file_path"
    /\ IF startup.env_file_path # None
       THEN /\ file_path_str' = startup.env_file_path
            /\ called' = called
       ELSE IF startup.app = "src/pygwalker/app.py"
       THEN /\ file_path_str' = PathOf(ProjectRoot, SampleDataName)
            /\ called' = called
       ELSE /\ scan_data_directory(DataDir, startup.listing, startup.fault) = Ok(<<>>)
            /\ file_path_str' = PathOf(DataDir, SampleDataName)
            /\ called' = Append(called, "locator")
    /\ main_pc' = "validate"
    /\ UNCHANGED <<app_state, pc, loc, req, resp, steps, sel_vars, call_vars, startup,
                   exit_code>>

\* get_file_path of src/app.py with DATA_FILE_PATH unset and files in /data:
\* the scan's output goes to prompt_for_file_selection
MainPrompt ==
    /\ main_pc = "get_file_path"
    /\ startup.env_file_path = None
    /\ startup.app = "src/app.py"
    /\ LET scanned == scan_data_directory(DataDir, startup.listing, startup.fault)
       IN  /\ scanned.value # <<>>
           /\ available_files' = scanned.value
    /\ default_file' = SampleDataName
    /\ max_attempts' = DefaultMaxAttempts
    /\ sel_pc' = "start"
    /\ main_pc' = "selecting"
    /\ called' = called \o <<"locator", "selector">>
    /\ UNCHANGED <<app_state, pc, loc, req, resp, steps, attempt, reads, displays,
                   last_input, sel_result, sel_outcome, call_vars, startup,
                   file_path_str, exit_code>>

\* MainSelected with the selector's KeyboardInterrupt left to main's except
\* clause
MainSelectedCancelExits ==
    /\ main_pc = "selecting"
    /\ sel_pc \in {"returned", "raised"}
    /\ IF sel_pc = "returned"
       THEN /\ file_path_str' = sel_result
            /\ main_pc' = "validate"
            /\ UNCHANGED <<called, exit_code>>
       ELSE IF sel_outcome = "cancelled"
       THEN /\ MainCatches("KeyboardInterrupt")
            /\ file_path_str' = file_path_str
       ELSE /\ MainCatches("FileNotFoundError")
            /\ file_path_str' = file_path_str
    /\ UNCHANGED <<app_state, pc, loc, req, resp, steps, sel_vars, call_vars, startup>>

\* the selector has ended: its choice is the path; a KeyboardInterrupt is
\* caught by get_file_path, which returns /data/sample_data.csv; any other
\* exception goes on to main's except clauses
MainSelected ==
    /\ main_pc = "selecting"
    /\ sel_pc \in {"returned", "raised"}
    /\ IF sel_pc = "returned"
       THEN /\ file_path_str' = sel_result
            /\ main_pc' = "validate"
            /\ UNCHANGED <<called, exit_code>>
       ELSE IF sel_outcome = "cancelled"
       THEN /\ file_path_str' = PathOf(DataDir, SampleDataName)
            /\ main_pc' = "validate"
            /\ UNCHANGED <<called, exit_code>>
       ELSE /\ MainCatches("FileNotFoundError")
            /\ file_path_str' = file_path_str
    /\ UNCHANGED <<app_state, pc, loc, req, resp, steps, sel_vars, call_vars, startup>>

\* validated_path = validate_file_path(file_path_str)
MainValidate ==
    /\ main_pc = "validate"
    /\ LET r == validate_file_path(file_path_str)
       IN  IF IsOk(r)
           THEN /\ main_pc' = "load"
                /\ UNCHANGED <<called, exit_code>>
           ELSE MainCatches(r.type)
    /\ UNCHANGED <<app_state, pc, loc, req, resp, steps, sel_vars, call_vars, startup,
                   file_path_str>>

\* df = load_data(validated_path); file_info; create_app(df, file_info) up
\* to its dict literal
MainLoad ==
    /\ main_pc = "load"
    /\ LET r == load_data(file_path_str)
       IN  IF IsOk(r)
           THEN /\ app_state' = NewAppState(file_path_str)
                /\ main_pc' = "create_app"
                /\ called' = Append(called, "loader")
                /\ exit_code' = exit_code
           ELSE /\ MainCatches(r.type)
                /\ app_state' = app_state
    /\ UNCHANGED <<pc, loc, req, resp, steps, sel_vars, call_vars, startup,
                   file_path_str>>

\* Ctrl+C while main is in its try block and not in the selector
MainInterrupt ==
    /\ main_pc \in {"get_file_path", "validate", "load", "create_app",
                    "create_app_render", "serving"}
    /\ MainCatches("KeyboardInterrupt")
    /\ app_state' = IF app_state.lock = MainThread
                    THEN [app_state EXCEPT !.lock = Free]
                    ELSE app_state
    /\ UNCHANGED <<pc, loc, req, resp, steps, sel_vars, call_vars, startup,
                   file_path_str>>

MainNext ==
    \/ MainParsePort \/ MainGetFilePath \/ MainPrompt
    \/ SelStart \/ SelLoopTest \/ SelInput
    \/ MainSelected \/ MainValidate \/ MainLoad
    \/ CreateAppAcquire \/ CreateAppRender
    \/ MainInterrupt

MainSpec == MainInit /\ [][MainNext]_vars

\* ------------------------------------------- the library functions, called alone

\* what a directory may hold: supported files whose names differ in case,
\* an unsupported file, a directory with a supported suffix
ScanNames ==
    << <<"b", ".", "c", "s", "v">>, <<"A", ".", "C", "S", "V">>,
       <<"C", ".", "j", "s", "o", "n">>, <<"n", ".", "t", "x", "t">>,
       <<"a", ".", "x", "l", "s">>, <<"B", ".", "c", "s", "v">> >>
ScanPool(d) ==
    { FsEntry(d, ScanNames[i], IF i = 5 THEN "dir" ELSE "file", TRUE, Garbage)
        : i \in DOMAIN ScanNames }

\* the orders in which iterdir() may yield up to MaxFiles entries
ScanListings(d) ==
    UNION { { f \in [1..n -> ScanPool(d)] : \A i, j \in 1..n : i # j => f[i] # f[j] }
            : n \in 0..MaxFiles }

ScanCalls ==
    { [fn |-> "scan_data_directory", data_dir |-> d, listing |-> l, fault |-> f]
        : d \in {DataDir}, l \in ScanListings(DataDir), f \in ScanFaults }
    \cup
    { [fn |-> "scan_data_directory", data_dir |-> d, listing |-> <<>>, fault |-> "none"]
        : d \in ScanDirs \ {DataDir} }

\* the loaders on every fixture file, and on every buffer under every name
LoadDataCalls ==
    { [fn |-> "load_data", file_path |-> e.path] : e \in LoaderFiles }
StorageNames ==
    LoaderNames \cup { <<"u", "p", "/", "b", ".", "C", "s", "v">> }
StorageContents == Range(LoaderContents) \cup {BrokenStream}
LoadStorageCalls ==
    { [fn |-> "load_data_from_file_storage", content |-> c, filename |-> n]
        : c \in StorageContents, n \in StorageNames }

\* the validator on raw names, on sizes around each ceiling and on 101 MB
ValidatorNames ==
    { <<>>,
      <<"a", ".", "c", "s", "v">>,
      <<"a", ".", "t", "x", "t">>,
      <<".", ".", "/", "s", "e", "c", "r", "e", "t", ".", "c", "s", "v">>,
      <<"b", "\\", "a", ".", "c", "s", "v">>,
      <<"u", "p", "/", "a", ".", "J", "S", "O", "N">>,
      <<"a", ".", ".", "x", "l", "s">>,
      <<".", ".", "/", "a", ".", "t", "x", "t">>,
      <<"a", ".", "c", "s", "v", "/">>,
      <<"c", "s", "v">> }
ValidatorCeilings == {0, 1, DefaultMaxSizeMb}
ValidatorSizes ==
    {0, 1} \cup { c * MB + d : c \in ValidatorCeilings, d \in {0, 1} }
    \cup { (DefaultMaxSizeMb + 1) * MB }
ValidatorCalls ==
    { [fn |-> "validate_uploaded_file", filename |-> n, file_size |-> z,
       max_size_mb |-> c]
        : n \in ValidatorNames, z \in ValidatorSizes, c \in ValidatorCeilings }

\* the endpoint's call of the validator: no ceiling is passed
UploadValidationCalls ==
    { [fn |-> "upload_file_endpoint", filename |-> n, file_size |-> z]
        : n \in ValidatorNames, z \in ValidatorSizes }

Calls ==
    ScanCalls \cup LoadDataCalls \cup LoadStorageCalls \cup ValidatorCalls
    \cup UploadValidationCalls

CallInit ==
    /\ ServerOff
    /\ SelIdle
    /\ call_pc = "called"
    /\ call_args \in Calls
    /\ call_result = None
    /\ MainIdle

CallReturns(fn, result) ==
    /\ call_pc = "called"
    /\ call_args.fn = fn
    /\ call_result' = result
    /\ call_pc' = "returned"
    /\ UNCHANGED <<call_args, server_vars, sel_vars, main_vars>>

CallScan ==
    /\ call_args.fn = "scan_data_directory"
    /\ CallReturns("scan_data_directory",
                   scan_data_directory(call_args.data_dir, call_args.listing,
                                       call_args.fault))

CallLoadData ==
    /\ call_args.fn = "load_data"
    /\ CallReturns("load_data", load_data(call_args.file_path))

CallLoadStorage ==
    /\ call_args.fn = "load_data_from_file_storage"
    /\ CallReturns("load_data_from_file_storage",
                   load_data_from_file_storage(call_args.content, call_args.filename))

CallValidate ==
    /\ call_args.fn = "validate_uploaded_file"
    /\ CallReturns("validate_uploaded_file",
                   validate_uploaded_file(call_args.filename, call_args.file_size,
                                          call_args.max_size_mb))

CallUploadValidation ==
    /\ call_args.fn = "upload_file_endpoint"
    /\ CallReturns("upload_file_endpoint",
                   UploadValidation(call_args.filename, call_args.file_size))

CallNext ==
    \/ CallScan \/ CallLoadData \/ CallLoadStorage \/ CallValidate
    \/ CallUploadValidation

CallSpec == CallInit /\ [][CallNext]_vars


\* what one load leaves in the slot: the dataset, its file_info, its artifact
Triple(name, path, df) ==
    [df |-> df, info |-> FileInfo(name, path, df), html |-> to_html(df)]

\* the triples of all loads the server can perform: a loadable path of the
\* filesystem (at startup or through /api/load-file) or an accepted upload
LoadTriples ==
    { Triple(p.name, p, Entry(p).content.df) : p \in StartupPaths }
    \cup { Triple(secure_filename(n), UploadedPath(secure_filename(n)), c.df) :
             n \in { m \in UploadNames :
                       validate_uploaded_file(secure_filename(m), 0, DefaultMaxSizeMb)[1] },
             c \in { k \in UploadContents : k.format = "csv" /\ ~DfIsEmpty(k.df) } }

\* the slot holds the triple of one load, and file_info describes current_df
SlotCoherent ==
    /\ \E T \in LoadTriples :
          /\ app_state.current_df = T.df
          /\ app_state.current_file_info = T.info
          /\ app_state.pyg_html = T.html
    /\ app_state.current_file_info.rows = app_state.current_df.rows
    /\ app_state.current_file_info.columns = Len(app_state.current_df.column_names)
    /\ app_state.current_file_info.column_names = app_state.current_df.column_names
    /\ app_state.pyg_html = to_html(app_state.current_df)

SwapPcs == {"load_swap_df", "load_swap_info", "load_swap_html",
            "upload_swap_df", "upload_swap_info", "upload_swap_html"}

\* the lock is held by a thread that writes the slot
WriterHoldsLock ==
    \/ app_state.lock = MainThread
    \/ \E t \in Workers : app_state.lock = Thread(t) /\ pc[t] \in SwapPcs

\* C1: in every reachable state in which no writer holds the lock, the three
\* fields of the slot derive from one single load: file_info's rows, columns
\* and column_names are those of current_df and pyg_html is the artifact
\* rendered from current_df.
C1_SlotCoherentUnlessWriting ==
    (main_pc # "off" /\ ~WriterHoldsLock) => SlotCoherent

\* the same once create_app has returned (not the claim: the slot that
\* create_app builds holds pyg_html = None until its first render)
SlotCoherentWhileServing ==
    (main_pc = "serving" /\ ~WriterHoldsLock) => SlotCoherent

\* C2: every response of GET /, GET /health and GET /info shows the slot of
\* one single load, whatever writer is in flight: the page pairs the file
\* name, rows and columns of a load with the artifact of that same load, and
\* /health and /info return the FileInfo of one load.
C2_ReadersSeeOneLoad ==
    \A t \in Workers :
        pc[t] = "done" =>
            /\ req[t].handler = "index" =>
                  \E T \in LoadTriples :
                      /\ resp[t].body.pyg_html = T.html
                      /\ resp[t].body.file_name = T.info.name
                      /\ resp[t].body.rows = T.info.rows
                      /\ resp[t].body.columns = T.info.columns
            /\ req[t].handler = "health" =>
                  \E T \in LoadTriples :
                      /\ resp[t].body.file = T.info.name
                      /\ resp[t].body.rows = T.info.rows
                      /\ resp[t].body.columns = T.info.columns
            /\ req[t].handler = "info" =>
                  \E T \in LoadTriples : resp[t].body = T.info

\* a page returned while a load that has swapped is still in flight shows
\* that load's file name and artifact
C2_Witness ==
    \E t, w \in Workers :
        /\ pc[t] = "done" /\ req[t].handler = "index"
        /\ pc[w] = "load_respond"
        /\ resp[t].body.pyg_html = loc[w].new_pyg_html
        /\ resp[t].body.file_name = loc[w].new_file_info.name
        /\ resp[t].body.pyg_html = to_html(DfE)

\* the statements that parse or render
WorkPcs == {"load_parse", "load_render", "upload_parse", "upload_render"}

\* C3: the lock is never held while a parse or a render runs: not by main in
\* create_app, not by a worker in /api/load-file or /api/upload-file.
C3_NoParseOrRenderUnderLock ==
    /\ main_pc = "create_app_render" => app_state.lock # MainThread
    /\ \A t \in Workers : pc[t] \in WorkPcs => app_state.lock # Thread(t)

\* the part of C3 the two handlers keep
WorkersParseAndRenderUnlocked ==
    \A t \in Workers : pc[t] \in WorkPcs => app_state.lock # Thread(t)

\* the request's path, judged on the filesystem itself
PathAbsent(p) == \A e \in FileSystem : e.path # p
PathRegular(p) == \E e \in FileSystem : e.path = p /\ e.kind = "file"
PathReadable(p) == \E e \in FileSystem : e.path = p /\ e.readable
PathValid(p) == PathRegular(p) /\ PathReadable(p)
\* the loader accepts the file: a supported extension whose parser accepts
\* the content
PathLoads(p) ==
    \E e \in FileSystem :
        /\ e.path = p
        /\ LET ext == Lower(NameSuffix(p.name))
           IN  \/ ext = ExtCsv /\ e.content.format = "csv"
               \/ ext \in {ExtXlsx, ExtXls} /\ e.content.format = "excel"
               \/ ext = ExtParquet /\ e.content.format = "parquet"
               \/ ext = ExtJson /\ e.content.format = "json"

UploadOrder ==
    <<"upload_file", "sanitize", "validate", "parse", "empty_check", "render", "swap">>

IsPrefix(s, full) == Len(s) <= Len(full) /\ s = SubSeq(full, 1, Len(s))
LastOf(s) == s[Len(s)]

\* the names the sanitizer can hand to the validator
SanitizedNames == { secure_filename(n) : n \in UploadNames }

\* C5: POST /api/upload-file runs sanitize, validate, parse, empty check,
\* render, swap in that order; the validator sees the sanitized name; a
\* failure at the validator, the loader or the empty check is answered 400
\* with no later stage run; 200 comes only after all six stages, for a valid
\* name and a non-empty dataset.
C5_UploadOrder ==
    \A t \in Workers :
        req[t].handler = "upload_file" =>
            /\ IsPrefix(steps[t], UploadOrder)
            /\ pc[t] = "upload_validate" =>
                  /\ loc[t].safe_filename \in SanitizedNames
                  /\ ~HasChar(loc[t].safe_filename, "/")
            /\ pc[t] = "done" =>
                  /\ LastOf(steps[t]) \in {"validate", "parse", "empty_check"}
                        => resp[t].status = 400
                  /\ LastOf(steps[t]) = "validate" =>
                        resp[t].body.error \in
                            {"No filename provided", "Unsupported file type",
                             "File size exceeds maximum allowed size"}
                  /\ LastOf(steps[t]) = "empty_check" =>
                        resp[t].body.error = "Uploaded file contains no data"
                  /\ resp[t].status = 200 =>
                        /\ steps[t] = UploadOrder
                        /\ resp[t].body.file_info.name \in SanitizedNames
                        /\ validate_uploaded_file(resp[t].body.file_info.name, 0,
                                                  DefaultMaxSizeMb)[1]
                        /\ resp[t].body.file_info.rows > 0
                        /\ resp[t].body.file_info.columns > 0

\* one upload was stopped by the empty check while another went through
C5_Witness ==
    \E t, u \in Workers :
        /\ pc[t] = "done" /\ req[t].handler = "upload_file"
        /\ LastOf(steps[t]) = "empty_check" /\ resp[t].status = 400
        /\ pc[u] = "done" /\ req[u].handler = "upload_file"
        /\ resp[u].status = 200
        /\ app_state.current_file_info.name = resp[u].body.file_info.name

\* C6: no step of GET /api/files changes the slot or takes its lock,
\* whatever the scan finds.
C6_ListFilesLeavesSlot ==
    [][ \A t \in Workers :
           (req'[t].handler = "list_files" /\ <<pc[t], resp[t]>> # <<pc'[t], resp'[t]>>)
               => app_state' = app_state ]_vars

\* a listing with files was returned while another thread held the lock
C6_Witness ==
    \E t, w \in Workers :
        /\ pc[t] = "done" /\ req[t].handler = "list_files"
        /\ resp[t].status = 200 /\ resp[t].body.count > 0
        /\ app_state.lock = Thread(w)

\* the selector's result is the listed entry named default_file, or the
\* first entry when no entry has that name
ReturnsDefaultOrFirst ==
    IF \E i \in DOMAIN available_files : available_files[i].name = default_file
    THEN sel_result \in Range(available_files) /\ sel_result.name = default_file
    ELSE sel_result = available_files[1]

WhitespaceOnly(text) == \A i \in DOMAIN text : text[i] = " "

\* the line read last is numeric and names an entry of the list
ChoosesEntry(text) ==
    LET parsed == ParseInt(Strip(text, {" "}))
    IN  IsOk(parsed) /\ parsed.value \in 1..Len(available_files)

\* the input read last was invalid: end of input, or a line that is neither
\* blank nor the number of an entry
LastInputInvalid ==
    \/ last_input.kind = "EOFError"
    \/ /\ last_input.kind = "line"
       /\ ~WhitespaceOnly(last_input.text)
       /\ ~ChoosesEntry(last_input.text)

\* C7: whatever the list and the attempts used so far, an empty or
\* whitespace-only line ends the selector at once with the entry named
\* default_file, or the first entry when the list has no such entry, and
\* the attempt counter as it was.
C7_EmptyInputSelectsDefault ==
    (last_input.kind = "line" /\ WhitespaceOnly(last_input.text)) =>
        /\ available_files # <<>>
        /\ sel_pc = "returned"
        /\ sel_outcome = "default_empty"
        /\ ReturnsDefaultOrFirst
        /\ attempt < max_attempts

\* an empty line after one invalid input returned the first entry, the
\* default not being listed
C7_Witness ==
    /\ last_input = Line(<<" ">>)
    /\ sel_pc = "returned"
    /\ attempt >= 1
    /\ reads = attempt + 1
    /\ sel_result = available_files[1]
    /\ sel_result.name # default_file
    /\ Len(available_files) >= 2

\* C8: with max_attempts = k >= 1, once k inputs have been read and all
\* were invalid the selector returns the default entry (or the first); it
\* never reads more than k inputs.
C8_ExhaustionReturnsDefault ==
    /\ (sel_pc = "input" /\ max_attempts >= 1) => reads < max_attempts
    /\ max_attempts >= 1 => reads <= max_attempts
    /\ (max_attempts >= 1 /\ reads = max_attempts /\ LastInputInvalid) =>
          /\ attempt = max_attempts
          /\ sel_pc \in {"loop", "returned"}
          /\ sel_pc = "returned" =>
                /\ sel_outcome = "default_exhausted"
                /\ ReturnsDefaultOrFirst

\* the ceiling of the model was reached by that many invalid inputs and the
\* listed default came back, not the first entry
C8_Witness ==
    /\ max_attempts = MaxAttemptsBound
    /\ reads = MaxAttemptsBound
    /\ LastInputInvalid
    /\ sel_pc = "returned"
    /\ sel_outcome = "default_exhausted"
    /\ sel_result.name = default_file
    /\ sel_result # available_files[1]

\* C9: the step that reads a KeyboardInterrupt leaves the selector with
\* that exception, the attempt counter and the result untouched, and the
\* selector takes no step after it.
C9_CancellationPropagates ==
    [][ /\ (reads' # reads /\ last_input'.kind = "KeyboardInterrupt") =>
              /\ sel_pc' = "raised"
              /\ sel_outcome' = "cancelled"
              /\ attempt' = attempt
              /\ sel_result' = None
        /\ sel_outcome # "cancelled" ]_vars

\* the selector was cancelled at its second input
C9_Witness ==
    /\ sel_pc = "raised"
    /\ sel_outcome = "cancelled"
    /\ last_input = Interrupt
    /\ attempt = 1
    /\ reads = 2
    /\ sel_result = None

\* C10: on a non-empty list the selector ends, unless cancelled, by
\* returning an entry of the list in one of three ways: the entry whose
\* number was typed, the default on an empty line, the default after the
\* last attempt.
C10_ThreeOutcomes ==
    (available_files # <<>> /\ sel_pc \in {"returned", "raised"}) =>
        \/ /\ sel_pc = "raised"
           /\ last_input.kind = "KeyboardInterrupt"
        \/ /\ sel_pc = "returned"
           /\ sel_result \in Range(available_files)
           /\ sel_outcome \in {"explicit", "default_empty", "default_exhausted"}
           /\ sel_outcome = "explicit" <=>
                 (last_input.kind = "line" /\ ChoosesEntry(last_input.text))
           /\ sel_outcome = "explicit" =>
                 sel_result =
                     available_files[ParseInt(Strip(last_input.text, {" "})).value]
           /\ sel_outcome = "default_empty" <=>
                 (last_input.kind = "line" /\ WhitespaceOnly(last_input.text))
           /\ sel_outcome = "default_exhausted" => attempt >= max_attempts

\* the selector returned on a non-empty list: the cases of C10 that hold
ReturnedEntryIsListed ==
    (available_files # <<>> /\ sel_pc = "returned") =>
        /\ sel_result \in Range(available_files)
        /\ sel_outcome \in {"explicit", "default_empty", "default_exhausted"}

\* ------------------------------------------------------- properties: locator

ScanReturned ==
    call_pc = "returned" /\ call_args.fn = "scan_data_directory"

\* the enumeration went through: the directory is one and nothing failed
ScanUndisturbed ==
    /\ DirExists(call_args.data_dir) /\ DirIsDir(call_args.data_dir)
    /\ ~DirStatRaises(call_args.data_dir)
    /\ call_args.fault = "none"

\* name ends, whatever the case, in a dot and one of the five extensions
EndsInDataExtension(name) ==
    \E ext \in { <<"c", "s", "v">>, <<"x", "l", "s", "x">>, <<"x", "l", "s">>,
                 <<"p", "a", "r", "q", "u", "e", "t">>, <<"j", "s", "o", "n">> } :
        /\ Len(name) > Len(ext) + 1
        /\ name[Len(name) - Len(ext)] = "."
        /\ Lower(SubSeq(name, Len(name) - Len(ext) + 1, Len(name))) = ext

\* C11: when the enumeration goes through, the Locator returns each regular
\* file of the directory whose extension is, in any case, csv, xlsx, xls,
\* parquet or json, once, and nothing else; a directory without such files
\* gives the empty sequence.
C11_LocatorFilter ==
    (ScanReturned /\ ScanUndisturbed) =>
        /\ IsOk(call_result)
        /\ Range(call_result.value) =
              { e.path : e \in { x \in Range(call_args.listing) :
                                   x.kind = "file" /\ EndsInDataExtension(x.path.name) } }
        /\ Len(call_result.value) = Cardinality(Range(call_result.value))

\* a directory with an upper-case extension, an unsupported file and a
\* directory named like a data file gave back the data file alone
C11_Witness ==
    /\ ScanReturned /\ ScanUndisturbed
    /\ Len(call_args.listing) = 3
    /\ Len(call_result.value) = 1
    /\ call_result.value[1].name = ScanNames[2]
    /\ \E i \in 1..3 : call_args.listing[i].kind = "dir"

\* a directory holding only other entries gave the empty sequence
OnlyOtherEntriesGiveEmpty ==
    /\ ScanReturned /\ ScanUndisturbed
    /\ Len(call_args.listing) = 2
    /\ call_result = Ok(<<>>)

\* C12: whatever the order of enumeration, the Locator's output is in
\* non-decreasing order of the lower-cased names.
C12_LocatorSorted ==
    (ScanReturned /\ IsOk(call_result)) =>
        \A i, j \in DOMAIN call_result.value :
            i < j => ~StrLess(Lower(call_result.value[j].name),
                              Lower(call_result.value[i].name))

\* three files enumerated in another order than the output's, which puts a
\* lower-case name before an upper-case one
C12_Witness ==
    /\ ScanReturned /\ ScanUndisturbed
    /\ Len(call_result.value) = 3
    /\ call_result.value # [i \in 1..3 |-> call_args.listing[i].path]
    /\ \E i, j \in 1..3 :
          i < j /\ StrLess(call_result.value[j].name, call_result.value[i].name)

\* C13: the Locator always returns a sequence, never an exception, and the
\* sequence is empty for a missing path, a path that is no directory and
\* any failure while enumerating.
C13_LocatorFailsOpen ==
    ScanReturned =>
        /\ IsOk(call_result)
        /\ ~ScanUndisturbed => call_result = Ok(<<>>)

\* the failures raised inside the try block, and the two tests passed with
\* False, give the empty sequence
GuardedFailuresGiveEmpty ==
    (ScanReturned /\ ~DirStatRaises(call_args.data_dir) /\ ~ScanUndisturbed) =>
        call_result = Ok(<<>>)

\* ------------------------------------------------------- properties: loaders

LoaderReturned ==
    call_pc = "returned"
    /\ call_args.fn \in {"load_data", "load_data_from_file_storage"}

\* the file name and the content a loader call was given
LoaderFileName ==
    IF call_args.fn = "load_data" THEN call_args.file_path.name
    ELSE BaseName(call_args.filename)
LoaderContent ==
    IF call_args.fn = "load_data" THEN Entry(call_args.file_path).content
    ELSE call_args.content

\* the parser the dispatch table gives to a file name: that of its
\* lower-cased extension, "none" for any other extension
ParserFor(name) ==
    LET ext == Lower(NameSuffix(name))
    IN  IF ext = <<".", "c", "s", "v">> THEN "csv"
        ELSE IF ext \in { <<".", "x", "l", "s", "x">>, <<".", "x", "l", "s">> } THEN "excel"
        ELSE IF ext = <<".", "p", "a", "r", "q", "u", "e", "t">> THEN "parquet"
        ELSE IF ext = <<".", "j", "s", "o", "n">> THEN "json"
        ELSE "none"

\* the message a failed loader call carries is m
Carries(r, m) ==
    ~IsOk(r) /\ Len(r.msg) = 2 /\ Len(r.msg[2]) = Len(m) /\ r.msg[2] = m

AllowedExtensionsNamed(msg) ==
    msg[3] = << <<".", "c", "s", "v">>, <<".", "x", "l", "s", "x">>,
                <<".", "x", "l", "s">>, <<".", "p", "a", "r", "q", "u", "e", "t">>,
                <<".", "j", "s", "o", "n">> >>

IsUnsupportedFormatError(r) ==
    /\ ~IsOk(r)
    /\ Len(r.msg) = 2
    /\ Len(r.msg[2]) = 3
    /\ r.msg[2][1] = "Unsupported file format"
    /\ AllowedExtensionsNamed(r.msg[2])

\* the outcome shows which parser ran: a dataset is the one of a content in
\* the parser's format, a parser's failure names the parser
ParserRan(r, parser) ==
    \/ IsOk(r) /\ LoaderContent.format = parser /\ r.value = LoaderContent.df
    \/ Carries(r, <<"cannot parse as", parser>>)
    \/ Carries(r, <<"sequence item: expected str instance">>)
          /\ LoaderContent.format = parser

C15_LoaderErrorType ==
    LoaderReturned =>
        \/ IsOk(call_result)
        \/ /\ call_result.type = "ValueError"
           /\ \/ Carries(call_result, <<"cannot parse as", ParserFor(LoaderFileName)>>)
              \/ IsUnsupportedFormatError(call_result)
              \/ /\ Carries(call_result, <<"read failed">>)
                 /\ LoaderContent = BrokenStream
              \/ /\ Carries(call_result, <<"sequence item: expected str instance">>)
                 /\ LoaderContent.df = DfN

\* a parser has failed in the path loader
C15_Witness ==
    /\ LoaderReturned
    /\ call_args.fn = "load_data"
    /\ LoaderContent = Garbage
    /\ call_result.type = "ValueError"
    /\ Carries(call_result, <<"cannot parse as", "parquet">>)

\* the read of the buffer has failed in the buffer loader
BufferReadFailed ==
    /\ LoaderReturned
    /\ LoaderContent = BrokenStream
    /\ ~IsOk(call_result)
    /\ call_result.type = "ValueError"

\* ----------------------------------------------------- properties: validator

ValidatorReturned ==
    call_pc = "returned" /\ call_args.fn = "validate_uploaded_file"

\* the four checks, on the call's arguments
NameGiven == call_args.filename # <<>>
ExtensionAllowed ==
    Lower(Suffix(call_args.filename)) \in
        { <<".", "c", "s", "v">>, <<".", "x", "l", "s", "x">>, <<".", "x", "l", "s">>,
          <<".", "p", "a", "r", "q", "u", "e", "t">>, <<".", "j", "s", "o", "n">> }
SizeWithinCeiling == call_args.file_size <= call_args.max_size_mb * 1024 * 1024
NoTraversal ==
    /\ \A i \in DOMAIN call_args.filename : call_args.filename[i] \notin {"/", "\\"}
    /\ \A i \in 1..(Len(call_args.filename) - 1) :
          ~(call_args.filename[i] = "." /\ call_args.filename[i + 1] = ".")

\* C16: the validator reports the reason of the first check that fails, in
\* the order name given, extension allowed, size within the ceiling, no
\* traversal sequence.
C16_ValidatorOrder ==
    ValidatorReturned =>
        call_result[2] =
            IF ~NameGiven THEN "No filename provided"
            ELSE IF ~ExtensionAllowed THEN "Unsupported file type"
            ELSE IF ~SizeWithinCeiling THEN "File size exceeds maximum allowed size"
            ELSE IF ~NoTraversal THEN "Invalid filename: path traversal detected"
            ELSE "None"

\* an oversize file whose name holds a traversal sequence was rejected for
\* its size
C16_Witness ==
    /\ ValidatorReturned
    /\ ExtensionAllowed /\ ~SizeWithinCeiling /\ ~NoTraversal
    /\ call_result = <<FALSE, "File size exceeds maximum allowed size">>

\* a file with a disallowed extension and an oversize body was rejected for
\* its extension
OversizeTextFileRejectedForExtension ==
    /\ ValidatorReturned
    /\ NameGiven /\ ~ExtensionAllowed /\ ~SizeWithinCeiling
    /\ call_result = <<FALSE, "Unsupported file type">>

\* C17: a name with '..', '/' or '\' is rejected at every size, a size
\* above the ceiling is rejected under every name, and the validator passes
\* only when all four checks pass.
C17_ValidatorRejects ==
    ValidatorReturned =>
        /\ ~NoTraversal => call_result[1] = FALSE
        /\ ~SizeWithinCeiling => call_result[1] = FALSE
        /\ call_result[1] = TRUE <=>
              (NameGiven /\ ExtensionAllowed /\ SizeWithinCeiling /\ NoTraversal)

\* "../secret.csv" of size 0 was rejected, and for its traversal sequence
C17_Witness ==
    /\ ValidatorReturned
    /\ call_args.filename =
          <<".", ".", "/", "s", "e", "c", "r", "e", "t", ".", "c", "s", "v">>
    /\ call_args.file_size = 0
    /\ call_args.max_size_mb = DefaultMaxSizeMb
    /\ call_result = <<FALSE, "Invalid filename: path traversal detected">>

\* 101 MB under an allowed name was rejected against the 100 MB ceiling
OversizeRejected ==
    /\ ValidatorReturned
    /\ call_args.file_size = 101 * 1024 * 1024
    /\ call_args.max_size_mb = 100
    /\ ExtensionAllowed /\ NoTraversal
    /\ call_result[1] = FALSE


\* ----------------------------------------- properties: web error translation

\* the body is one of the handlers' JSON objects: a result on 200, an
\* error object otherwise
JsonBodyFor(status, body) ==
    IF status = 200
    THEN "success" \in DOMAIN body \/ "files" \in DOMAIN body
    ELSE "error" \in DOMAIN body

\* the stages at which a failure is classified as the client's
ClassifiedStages == {"load_file", "upload_file", "sanitize", "validate", "parse",
                     "empty_check"}

\* C19: every request to /api/load-file, /api/upload-file and /api/files
\* ends with a JSON body and a status in {200, 400, 404, 500} for load-file
\* and in {200, 400, 500} for the other two; 400 and 404 answer the failures
\* classified as such, and every other failure, a failure of the render
\* step included, is answered with 500.
C19_WebErrorTranslation ==
    \A t \in Workers :
        (pc[t] = "done" /\ req[t].handler \in {"load_file", "upload_file", "list_files"}) =>
            LET status == resp[t].status
                last == LastOf(steps[t])
            IN  /\ resp[t] # None
                /\ JsonBodyFor(status, resp[t].body)
                /\ req[t].handler = "load_file" => status \in {200, 400, 404, 500}
                /\ req[t].handler # "load_file" => status \in {200, 400, 500}
                /\ status \in {400, 404} => last \in ClassifiedStages
                /\ status = 404 =>
                      /\ req[t].handler = "load_file" /\ last = "validate"
                      /\ PathAbsent(req[t].data.file_path)
                /\ last = "render" => status = 500
                /\ (status # 200 /\ last \notin ClassifiedStages) => status = 500
                /\ status = 200 => last \in {"swap", "list_files"}

\* a render failure was answered with 500 on both writing endpoints
C19_Witness ==
    \E t, u \in Workers :
        /\ pc[t] = "done" /\ req[t].handler = "load_file"
        /\ resp[t].status = 500 /\ LastOf(steps[t]) = "render"
        /\ pc[u] = "done" /\ req[u].handler = "upload_file"
        /\ resp[u].status = 500 /\ LastOf(steps[u]) = "render"

\* a failed scan and a failed stat() were answered with 500 by /api/files
ListFilesFailuresAnswered ==
    \E t, u \in Workers :
        /\ pc[t] = "done" /\ req[t].handler = "list_files"
        /\ resp[t].status = 500 /\ resp[t].body.error = "PermissionError"
        /\ pc[u] = "done" /\ req[u].handler = "list_files"
        /\ resp[u].status = 500 /\ resp[u].body.error = "FileNotFoundError"

\* ------------------------------------------------------- properties: main

\* main has a path in hand
PathResolved ==
    main_pc \in {"validate", "load", "create_app", "create_app_render", "serving"}

\* what scan_data_directory('/data') gives at this startup
StartupScan == scan_data_directory(DataDir, startup.listing, startup.fault)

\* C18: when DATA_FILE_PATH is not given, startup runs the Locator, passes
\* its output to the Selector and the Selector's choice to the Loader, and
\* the server serves only after the Loader has produced the dataset, in
\* src/app.py and in src/pygwalker/app.py alike.
C18_StartupComposition ==
    /\ (startup.env_file_path = None /\ PathResolved) =>
          /\ Len(called) >= 2
          /\ called[1] = "locator"
          /\ called[2] = "selector"
          /\ available_files = StartupScan.value
          /\ sel_pc = "returned"
          /\ file_path_str = sel_result
    /\ main_pc = "serving" =>
          /\ called[Len(called)] = "loader"
          /\ app_state.current_df = load_data(file_path_str).value

\* src/pygwalker/app.py serves sample_data.csv from beside app.py, having run
\* neither the Locator nor the Selector
ServesWithoutLocatorOrSelector ==
    /\ startup.app = "src/pygwalker/app.py"
    /\ startup.env_file_path = None
    /\ main_pc = "serving"
    /\ called = <<"loader">>
    /\ file_path_str = PathOf(ProjectRoot, SampleDataName)

\* what does hold: src/app.py with no DATA_FILE_PATH always runs the
\* Locator, runs the Selector on its output when there is any, and loads
\* the Selector's choice when it makes one; neither file serves before
\* load_data has produced the dataset in the slot
AppPyComposesAndBothLoadFirst ==
    /\ (startup.app = "src/app.py" /\ startup.env_file_path = None
        /\ main_pc \notin {"start", "raised", "get_file_path"}
        /\ called # <<"KeyboardInterrupt">>) =>
          /\ called[1] = "locator"
          /\ StartupScan.value # <<>> =>
                /\ called[2] = "selector"
                /\ available_files = StartupScan.value
                /\ (sel_pc = "returned" /\ PathResolved) => file_path_str = sel_result
          /\ StartupScan.value = <<>> => sel_pc = "off"
    /\ startup.app = "src/pygwalker/app.py" => sel_pc = "off" /\ "locator" \notin Range(called)
    /\ main_pc = "serving" =>
          /\ called[Len(called)] = "loader"
          /\ IsOk(load_data(file_path_str))
          /\ app_state.current_df = load_data(file_path_str).value

\* src/app.py serves the file chosen at the prompt
AppPyServesTheChoice ==
    /\ startup.app = "src/app.py"
    /\ startup.env_file_path = None
    /\ main_pc = "serving"
    /\ called = <<"locator", "selector", "loader">>
    /\ file_path_str = sel_result


\* what main does with failures and interrupts inside its try block: a path
\* that fails validation is never loaded, a file that fails to load is never
\* served, the process exits with 0 exactly on a KeyboardInterrupt and with
\* 1 on every other exception, and an exit with 1 comes before any serving
FailuresInTryExitOne ==
    /\ main_pc \in {"load", "create_app", "create_app_render", "serving"} =>
          IsOk(validate_file_path(file_path_str))
    /\ main_pc \in {"create_app", "create_app_render", "serving"} =>
          IsOk(load_data(file_path_str))
    /\ exit_code # "none" <=> main_pc = "exit"
    /\ main_pc = "exit" =>
          /\ exit_code \in {"0", "1"}
          /\ exit_code = "0" <=> LastOf(called) = "KeyboardInterrupt"
          /\ exit_code = "1" =>
                /\ app_state.pyg_html = None
                /\ LastOf(called) \in {"FileNotFoundError", "PermissionError",
                                       "ValueError", "Exception"}

\* C20: in main, every failure of path resolution, validation or loading
\* ends the process with exit code 1 before the server serves, a user
\* interrupt ends it with exit code 0, and no exception propagates out of
\* main.
C20_StartupErrorTranslation ==
    /\ FailuresInTryExitOne
    /\ main_pc # "raised"

\* PYGWALKER_PORT is not a number: int() raises before the try block, and
\* the ValueError leaves main with no exit code chosen
PortErrorLeavesMain ==
    /\ ~startup.port_ok
    /\ main_pc = "raised"
    /\ exit_code = "none"
    /\ called = <<>>

\* main has exited with 1: on a path that is absent, on one that is not a
\* file, or on a file that does not parse
FailuresExited ==
    /\ main_pc = "exit"
    /\ exit_code = "1"
    /\ app_state.pyg_html = None
    /\ \/ LastOf(called) = "FileNotFoundError"
       \/ LastOf(called) = "ValueError" /\ ~IsOk(validate_file_path(file_path_str))
       \/ LastOf(called) = "ValueError" /\ IsOk(validate_file_path(file_path_str))


\* ----------------------------------------------------- properties: the lock

LockPcs == {"index_lock", "health_lock", "info_lock", "load_lock", "upload_lock"}

\* the lock is taken only when it is free, and a thread that holds it is
\* not waiting for it
NoNestedAcquire ==
    /\ \A t \in Workers : app_state.lock = Thread(t) => pc[t] \notin LockPcs
    /\ app_state.lock = MainThread => main_pc = "create_app_render"

\* where a request is from the moment it waits for the lock until it has
\* left the with block and answered
HeldPcs == {"index_read_info", "index_read_html", "health_read", "info_read",
            "load_swap_df", "load_swap_info", "load_swap_html",
            "upload_swap_df", "upload_swap_info", "upload_swap_html"}
RespondPcs == {"load_respond", "upload_respond"}
AtTheLock(t) == pc[t] \in LockPcs \cup HeldPcs \cup RespondPcs

\* C21: every acquisition of the slot's lock is followed by its release,
\* also when the guarded code raises; no thread acquires the lock while it
\* holds it; and under fair scheduling every request that waits for the
\* lock gets it and completes. (A thread that holds the lock always comes
\* to a state where it does not; a request that waits always comes to a
\* state where it has answered.)
C21_NoIndefiniteBlocking ==
    /\ []NoNestedAcquire
    /\ []<>(app_state.lock # MainThread)
    /\ \A t \in Workers :
          /\ []<>(app_state.lock # Thread(t))
          /\ []<>(~AtTheLock(t))

\* a request waits for the lock while another thread holds it
C21_Witness ==
    \E t, u \in Workers :
        /\ pc[t] \in LockPcs
        /\ app_state.lock = Thread(u)
        /\ t # u

\* create_app's render failed and its with block released the lock
CreateAppReleasedOnFailure ==
    /\ main_pc = "exit"
    /\ app_state.pyg_html = None
    /\ app_state.lock = Free


\* ----------------------------------------- properties: the attempt counter

\* the line is neither blank nor the number of an entry
InvalidLine(in) ==
    /\ in.kind = "line"
    /\ ~WhitespaceOnly(in.text)
    /\ ~ChoosesEntry(in.text)

AttemptWithinBounds ==
    /\ 0 <= attempt
    /\ max_attempts >= 0 => attempt <= max_attempts

\* C22: each non-numeric line and each number outside 1..N increments the
\* attempt counter by exactly one and, below the ceiling, is followed by a
\* redisplay of the list; a blank line and a valid number leave the counter
\* as it was; and 0 <= attempt <= max_attempts in every state.
C22_AttemptCounter ==
    /\ []AttemptWithinBounds
    /\ [][ reads' # reads =>
              /\ InvalidLine(last_input') =>
                    /\ attempt' = attempt + 1
                    /\ attempt' < max_attempts =>
                          displays' = displays + 1 /\ sel_pc' = "loop"
              /\ (last_input'.kind = "line" /\ ~InvalidLine(last_input')) =>
                    attempt' = attempt ]_vars

\* one invalid line took the counter from 0 to 2: the redisplay after it
\* failed inside the try block and the except Exception clause counted again
InvalidLineCountedTwice ==
    /\ reads = 1
    /\ InvalidLine(last_input)
    /\ attempt = 2

\* what holds of the counter: an invalid line adds one, or two when a
\* redisplay was due (which may fail); a blank line and a valid number add
\* nothing; the counter stays within its bounds
AttemptCountsInvalidLines ==
    /\ []AttemptWithinBounds
    /\ [][ reads' # reads =>
              /\ InvalidLine(last_input') =>
                    /\ attempt' \in {attempt + 1, attempt + 2}
                    /\ attempt' = attempt + 2 => attempt + 1 < max_attempts
                    /\ attempt + 1 >= max_attempts =>
                          displays' = displays /\ sel_pc' = "loop"
              /\ (last_input'.kind = "line" /\ ~InvalidLine(last_input')) =>
                    /\ attempt' = attempt
                    /\ displays' = displays
                    /\ sel_pc' = "returned" ]_vars

\* an invalid line was counted once and the list shown again
InvalidLineCountedOnce ==
    /\ reads = 1
    /\ InvalidLine(last_input)
    /\ attempt = 1
    /\ displays = 2
    /\ sel_pc = "loop"


\* ------------------------------------------- properties: the size boundary

UploadValidationReturned ==
    call_pc = "returned" /\ call_args.fn = "upload_file_endpoint"

SizeRejected == call_result = <<FALSE, "File size exceeds maximum allowed size">>

\* C23: with ceiling max_size_mb the size check passes for every size up to
\* max_size_mb * 1024 * 1024, that size and zero included, and fails from
\* one byte more; the default ceiling is 100 MB = 104857600 bytes, and the
\* upload endpoint calls the validator with that default.
C23_UploadSizeBoundary ==
    /\ DefaultMaxSizeMb * 1024 * 1024 = 104857600
    /\ ValidatorReturned =>
          /\ call_args.file_size <= call_args.max_size_mb * 1024 * 1024 => ~SizeRejected
          /\ (call_args.file_size >= call_args.max_size_mb * 1024 * 1024 + 1
              /\ NameGiven /\ ExtensionAllowed) => SizeRejected
          /\ (call_args.file_size >= call_args.max_size_mb * 1024 * 1024 + 1) =>
                call_result[1] = FALSE
    /\ UploadValidationReturned =>
          /\ call_args.file_size <= 104857600 => ~SizeRejected
          /\ (call_args.file_size >= 104857601 /\ NameGiven /\ ExtensionAllowed) =>
                SizeRejected
          /\ call_args.file_size >= 104857601 => call_result[1] = FALSE
          /\ call_result[1] = TRUE <=>
                (NameGiven /\ ExtensionAllowed /\ NoTraversal
                 /\ call_args.file_size <= 104857600)

\* the endpoint's validation passed a file of exactly 104857600 bytes
C23_Witness ==
    /\ UploadValidationReturned
    /\ call_args.file_size = 104857600
    /\ call_result = <<TRUE, "None">>

\* the endpoint's validation rejected a file of 104857601 bytes for its size
OneByteOverDefaultRejected ==
    /\ UploadValidationReturned
    /\ call_args.file_size = 104857601
    /\ SizeRejected

\* with ceiling 0 an empty file passed
EmptyFilePassesCeilingZero ==
    /\ ValidatorReturned
    /\ call_args.max_size_mb = 0
    /\ call_args.file_size = 0
    /\ call_result = <<TRUE, "None">>


\* ------------------------------------- properties: the slot under failure

\* the three fields of the slot
SlotOf(state) == <<state.current_df, state.current_file_info, state.pyg_html>>

Writes(t) == req[t].handler \in {"load_file", "upload_file"}

\* C24: a /api/load-file or /api/upload-file request that ends with a status
\* other than 200 has not changed current_df, current_file_info or pyg_html
\* at any of its steps; a request writes the slot only after its parse and
\* render have succeeded, under the lock, and such a request ends with 200.
C24_StateUnchangedOnFailure ==
    /\ [](\A t \in Workers :
             (pc[t] = "done" /\ Writes(t)) =>
                 (resp[t].status # 200 <=> "swap" \notin Range(steps[t])))
    /\ [][ \A t \in Workers :
              (pc'[t] # pc[t] /\ SlotOf(app_state') # SlotOf(app_state)) =>
                  /\ Writes(t)
                  /\ pc[t] \in SwapPcs
                  /\ app_state.lock = Thread(t)
                  /\ "swap" \in Range(steps'[t])
                  /\ \E k \in 1..(Len(steps'[t]) - 2) :
                        steps'[t][k] = "parse" /\ "render" \in Range(steps'[t]) ]_vars

\* a load whose render failed and an upload rejected as empty have ended,
\* and the slot holds the load the server started with
C24_Witness ==
    \E t, u \in Workers :
        /\ pc[t] = "done" /\ req[t].handler = "load_file"
        /\ resp[t].status = 500
        /\ pc[u] = "done" /\ req[u].handler = "upload_file"
        /\ resp[u].status = 400 /\ LastOf(steps[u]) = "empty_check"
        /\ app_state.current_file_info.name # req[t].data.file_path.name
        /\ SlotCoherent


\* ---------------------------------------- properties: concurrent writers

\* worker t has answered 200 to a load or an upload
Succeeded(t) == pc[t] = "done" /\ Writes(t) /\ resp[t].status = 200

\* the slot holds the dataset, FileInfo and artifact of t's request
SlotIsOf(t) ==
    /\ app_state.pyg_html = resp[t].body.html
    /\ app_state.current_df = resp[t].body.html.of
    /\ app_state.current_file_info.name = resp[t].body.file_info.name
    /\ app_state.current_file_info.rows = resp[t].body.file_info.rows
    /\ app_state.current_file_info.columns = resp[t].body.file_info.columns
    /\ app_state.current_file_info.column_names = resp[t].body.file_info.column_names

\* C25: when two successful writers overlap, the slot after both holds the
\* whole triple of one of them and never a mixture; each writer leaves its
\* with block with the slot holding its own three values, so the slot is that
\* of the writer that took the lock last, whichever request arrived first.
C25_ConcurrentWriters ==
    /\ [](\A t, u \in Workers :
             (t # u /\ Succeeded(t) /\ Succeeded(u)) =>
                 /\ SlotIsOf(t) \/ SlotIsOf(u)
                 /\ SlotCoherent)
    /\ []SlotCoherentWhileServing
    /\ [][ \A t \in Workers :
              (pc[t] \in {"load_swap_html", "upload_swap_html"} /\ pc'[t] # pc[t]) =>
                  /\ app_state.lock = Thread(t)
                  /\ app_state'.lock = Free
                  /\ SlotOf(app_state') =
                        <<loc[t].df, loc[t].new_file_info, loc[t].new_pyg_html>> ]_vars

\* two writers of different data have both succeeded and the slot is that
\* of the second worker
C25_Witness ==
    \E t, u \in Workers :
        /\ t < u
        /\ Succeeded(t) /\ Succeeded(u)
        /\ resp[t].body.html # resp[u].body.html
        /\ SlotIsOf(u) /\ ~SlotIsOf(t)

\* the same with the slot that of the first worker
FirstWorkerWins ==
    \E t, u \in Workers :
        /\ t < u
        /\ Succeeded(t) /\ Succeeded(u)
        /\ resp[t].body.html # resp[u].body.html
        /\ SlotIsOf(t) /\ ~SlotIsOf(u)

\* a request that arrived while no other was in flight is still parsing
\* when a later request has succeeded and holds the slot
EarlierRequestStillParsing ==
    \E t, u \in Workers :
        /\ pc[t] \in {"load_parse", "upload_parse"}
        /\ Succeeded(u) /\ SlotIsOf(u)


\* ---------------------------------------------- properties: empty datasets

\* the request names a file that parses to an empty dataset
LoadsEmptyFile(t) ==
    /\ req[t].handler = "load_file"
    /\ req[t].data.kind = "object"
    /\ PathValid(req[t].data.file_path)
    /\ PathLoads(req[t].data.file_path)
    /\ DfIsEmpty(Entry(req[t].data.file_path).content.df)

\* C26: only /api/upload-file rejects an empty dataset. A successful upload
\* carries a non-empty dataset; a /api/load-file request for a file that
\* parses to an empty dataset is never answered 400 and, when its render
\* succeeds, is answered 200 with the empty dataset swapped in.
C26_EmptyDatasets ==
    \A t \in Workers :
        /\ (Succeeded(t) /\ req[t].handler = "upload_file") =>
              /\ resp[t].body.file_info.rows > 0
              /\ "empty_check" \in Range(steps[t])
        /\ req[t].handler = "load_file" => "empty_check" \notin Range(steps[t])
        /\ (pc[t] = "done" /\ LoadsEmptyFile(t)) =>
              /\ resp[t].status \in {200, 500}
              /\ resp[t].status = 500 => LastOf(steps[t]) = "render"
              /\ resp[t].status = 200 =>
                    /\ "swap" \in Range(steps[t])
                    /\ DfIsEmpty(resp[t].body.html.of)
                    /\ resp[t].body.file_info.rows = 0

\* the server serves with an empty dataset in the slot, put there by a
\* /api/load-file request
C26_Witness ==
    \E t \in Workers :
        /\ Succeeded(t) /\ LoadsEmptyFile(t)
        /\ SlotIsOf(t)
        /\ main_pc = "serving"
        /\ app_state.lock = Free
        /\ DfIsEmpty(app_state.current_df)

\* the server starts serving with the empty dataset main loaded
StartupLoadedEmptyDataset ==
    /\ main_pc = "serving"
    /\ DfIsEmpty(app_state.current_df)
    /\ \A t \in Workers : pc[t] = "idle" /\ steps[t] = <<>>


\* ------------------------------------------ properties: the extension sets

FiveExtensions ==
    { <<".", "c", "s", "v">>, <<".", "x", "l", "s", "x">>, <<".", "x", "l", "s">>,
      <<".", "p", "a", "r", "q", "u", "e", "t">>, <<".", "j", "s", "o", "n">> }

\* the validator's verdict on the extension of a name
ValidatorRefusesExtension(filename) ==
    validate_uploaded_file(filename, 0, DefaultMaxSizeMb)[2] = "Unsupported file type"

LocatorReturnedUpperCaseExtension ==
    /\ ScanReturned /\ IsOk(call_result)
    /\ \E i \in DOMAIN call_result.value :
          call_result.value[i].name = <<"A", ".", "C", "S", "V">>

\* both loaders refused a.txt as unsupported
TextFileRefusedByLoader ==
    /\ LoaderReturned
    /\ LoaderFileName = <<"a", ".", "t", "x", "t">>
    /\ IsUnsupportedFormatError(call_result)


\* ------------------------------------------ properties: selector termination

SelEnded == sel_pc \in {"returned", "raised"}

\* what bounds the reads, the counting of end-of-input and the cases in
\* which nothing is read
ReadsBounded ==
    /\ [](reads <= (IF max_attempts > 0 THEN max_attempts ELSE 0))
    /\ []((max_attempts <= 0 \/ available_files = <<>>) => reads = 0)
    /\ []((available_files = <<>> /\ sel_pc # "start") =>
             /\ sel_pc = "returned"
             /\ sel_result = PathOf(DataDir, default_file))
    /\ [][ (reads' # reads /\ last_input'.kind = "EOFError") =>
              attempt' = attempt + 1 ]_vars
    /\ []((sel_pc = "returned" /\ last_input.kind = "EOFError") =>
             /\ sel_outcome = "default_exhausted"
             /\ attempt = max_attempts)

\* C28: for every list, ceiling and input sequence the selector ends, by
\* returning or by propagating the cancellation, after at most
\* max(max_attempts, 0) reads; end-of-input counts as one attempt, so a
\* closed stream ends in the default after the last attempt; with
\* max_attempts <= 0 or an empty list nothing is read, and the empty list
\* returns /data/<default_file>.
C28_SelectorTermination ==
    /\ <>(sel_pc = "returned" \/ (sel_pc = "raised" /\ sel_outcome = "cancelled"))
    /\ ReadsBounded

\* the selector has ended with the OSError of display_file_list
EndedByDisplayError ==
    /\ sel_pc = "raised"
    /\ sel_outcome = "display_error"
    /\ last_input.kind # "KeyboardInterrupt"

\* what holds: the selector always ends, within the bound on its reads
SelectorEndsWithinBound ==
    /\ <>SelEnded
    /\ ReadsBounded

\* a closed input stream was read max_attempts times and the default came back
ClosedStreamExhausted ==
    /\ sel_pc = "returned"
    /\ sel_outcome = "default_exhausted"
    /\ last_input.kind = "EOFError"
    /\ max_attempts = MaxAttemptsBound
    /\ reads = MaxAttemptsBound


\* ------------------------------------- properties: cancellation at startup

DefaultPath == PathOf(DataDir, SampleDataName)

\* src/app.py was started
AppPy == startup.app = "src/app.py"

DefaultPathValidatedAfterCancel ==
    /\ AppPy
    /\ sel_outcome = "cancelled"
    /\ main_pc = "exit"
    /\ exit_code = "1"
    /\ file_path_str = DefaultPath

\* the Locator found nothing and main is about to validate the default path
DefaultPathOnEmptyScan ==
    /\ AppPy
    /\ startup.env_file_path = None
    /\ called = <<"locator">>
    /\ main_pc = "validate"
    /\ file_path_str = DefaultPath

\* with DATA_FILE_PATH set src/app.py serves that file
ServesEnvPath ==
    /\ AppPy
    /\ startup.env_file_path # None
    /\ main_pc = "serving"
    /\ called = <<"loader">>


\* ------------------------------------------ properties: load-by-path scope

\* the path has one of the supported extensions
PathSupported(p) == Lower(NameSuffix(p.name)) \in SupportedExts

\* the request went through these stages first
StagesBegin(t, stages) ==
    /\ Len(steps[t]) >= Len(stages)
    /\ SubSeq(steps[t], 1, Len(stages)) = stages

\* the files a GET /api/files answer names
ListedPaths(u) == { resp[u].body.files[i].path : i \in DOMAIN resp[u].body.files }

\* C30: POST /api/load-file takes every path that exists, is a regular
\* readable file and has a supported extension through validation to the
\* parser, whatever its directory, and answers 200 for it when its content
\* loads and renders; a loaded path need not be one GET /api/files names.
C30_LoadByPathScope ==
    \A t \in Workers :
        (/\ pc[t] = "done" /\ req[t].handler = "load_file"
         /\ req[t].data.kind = "object"
         /\ PathValid(req[t].data.file_path)
         /\ PathSupported(req[t].data.file_path)) =>
            LET p == req[t].data.file_path
            IN  /\ StagesBegin(t, <<"load_file", "validate", "parse">>)
                /\ resp[t].status # 404
                /\ PathLoads(p) =>
                      /\ resp[t].status \in {200, 500}
                      /\ StagesBegin(t, <<"load_file", "validate", "parse", "render">>)
                      /\ resp[t].status = 200 =>
                            resp[t].body.file_info.name = p.name

\* a file outside the listed directory was loaded: GET /api/files named the
\* files of /data and POST /api/load-file answered 200 for a path of /srv
C30_Witness ==
    \E t, u \in Workers :
        /\ pc[u] = "done" /\ req[u].handler = "list_files"
        /\ resp[u].status = 200 /\ resp[u].body.count > 0
        /\ \A q \in ListedPaths(u) : q.dir = DataDir
        /\ Succeeded(t) /\ req[t].handler = "load_file"
        /\ req[t].data.file_path.dir = OtherDir
        /\ req[t].data.file_path \notin ListedPaths(u)
        /\ SlotIsOf(t)

====
